---------------------------- MODULE Spec2Model ----------------------------
(***************************************************************************)
(* A model of the connection state and the transaction manager of         *)
(* src/peewee.py (Database, _ConnectionState, _manual, _atomic,           *)
(* _transaction, _savepoint).                                              *)
(*                                                                         *)
(* Two groups of variables, one per family of specifications:            *)
(*   Spec         : one thread using one Database; blocks written as with *)
(*                  statements, statements executed in and between them.  *)
(*   SpecUnscoped : the same, with context managers exited by hand in any *)
(*                  order.                                                *)
(*   SpecRows     : atomic blocks that write rows and call commit() and   *)
(*                  rollback() on the frame object.                       *)
(*   SpecConn     : several threads calling connect/close/push/pop on one *)
(*                  Database, statement by statement.                     *)
(*                                                                         *)
(* Further groups of variables, one per subsystem, each with its own      *)
(* specification; a group no specification uses stays at its idle value:  *)
(*   SpecModel    : Model instances, field accessors, _dirty and save().  *)
(*   SpecPrefetch : prefetch() of one parent query and one child query.   *)
(*   SpecRow      : ModelCursorWrapper.process_row on a joined row.       *)
(*   SpecDelete   : Model.dependencies and delete_instance(recursive).    *)
(*   SpecCursor   : CursorWrapper row cache, iteration and indexing.      *)
(*   SpecMeta     : Metadata add_field / remove_field and its references. *)
(*   SpecQuery    : query builders, Node.copy and clone.                  *)
(*   SpecAlias    : AliasManager scopes and generated aliases.            *)
(*   SpecConnErr  : connect / close / init with a failing driver or hook. *)
(*   SpecCursorAll: SpecCursor plus CursorWrapper.iterator().             *)
(*   SpecContext  : Context scopes, settings and value conversion.        *)
(*   SpecBuilder  : Insert.where, Select.for_update, CompositeKey.__set__ *)
(*   SpecSort     : sort_models, create_tables and drop_tables.           *)
(*   SpecSorted   : _SortedFieldList insert, index and remove.            *)
(*   SpecBind     : Database.bind_ctx and _BoundModelsContext.            *)
(***************************************************************************)
EXTENDS Integers, Sequences, FiniteSets, TLC

\* ------------------------------------------------------------------ bounds
MaxFrames == 3      \* context managers alive at the same time
MaxRows == 3        \* rows the table can hold
NThreads == 2       \* threads sharing the Database object
MaxConns == 2       \* driver connections open at the same time
MaxDepth == 1       \* frames one thread pushes in SpecConn

FrameIds == 1..MaxFrames
RowIds == 1..MaxRows
Threads == 1..NThreads
ConnIds == 1..MaxConns

\* ------------------------------------------------------------- variables
VARIABLES
    \* --- Database configuration (class attributes, constructor arguments)
    dialect,        \* [name, commit_select, begin_sql]
    autorollback,   \* Database.autorollback
    \* --- _ConnectionState of the single thread
    closed,         \* _state.closed   (conn is None exactly when closed)
    transactions,   \* _state.transactions : Seq of [id, kind]
    \* --- the database server as seen through the driver connection
    server,         \* [persisted, work, inTxn, spTxn, sps]
    \* --- the calling program
    open,           \* context managers entered and not exited: Seq of
                    \* [id, kind]
    exc,            \* an exception is propagating in the program
    \* --- observation of the last operation
    issued,         \* driver calls made by the last operation
    last,           \* what the last operation was
    \* --- history of the outermost block and of the rows written
    blk, rows,
    \* --- SpecConn: threads sharing one Database
    thread_safe,    \* Database.thread_safe
    lock,           \* holder of Database._lock, 0 when free
    cstate,         \* slot -> [closed, conn, transactions]
    pc,             \* thread -> position inside connect()/close()
    is_open,        \* thread -> local variable is_open of close()
    made,           \* thread -> connection returned by _connect() and not
                    \* yet handed to set_connection(), 0 when none
    drv,            \* driver connections that are open
    ret,            \* thread -> outcome of its last call
    actor           \* thread that took the last step, 0 initially

txnVars == <<dialect, autorollback, closed, transactions, server, open, exc,
             issued, last, blk, rows>>
connVars == <<thread_safe, lock, cstate, pc, is_open, made, drv, ret,
              actor>>
\* ------------------------------------------------- further variables
\* --- SpecModel: one instance of a model class
VARIABLES
    pkkind,           \* Meta: auto-increment, plain or composite primary key
    only_save_dirty,  \* Meta.only_save_dirty
    data,             \* instance.__data__: field name -> value, 0 for None
    dirty,            \* instance._dirty
    rel,              \* instance.__rel__: the object cached for the foreign key
    stmts,            \* statements the last operation issued
    iop              \* what the last operation on the instance was

instVars == <<pkkind, only_save_dirty, data, dirty, rel, stmts, iop>>

\* --- SpecPrefetch: prefetch(root query, child query)
VARIABLES
    roots,            \* keys of the rows of the root query, in its order
    children,         \* foreign key of each row of the child query, in its order
    pfpc,             \* built, returned or iterated
    notes,            \* root key -> the list set as its backref attribute
    parent,           \* child row -> key of the root instance set as its foreign key attribute
    executed,         \* how often each query was executed
    wrapper,          \* whether each query holds a cursor wrapper
    got              \* the rows iterating the returned query gave

pfVars == <<roots, children, pfpc, notes, parent, executed, wrapper, got>>

\* --- SpecRow: ModelCursorWrapper.process_row on one joined row
VARIABLES
    constructor,      \* what builds the destination of the join: the model class or dict
    attr,             \* the attribute the join sets: a foreign key field or a plain name
    row,              \* the row: the source column, then the destination columns; 0 is NULL
    objects,          \* the objects built for the row
    rowerr,           \* the exception process_row raised
    rpc              \* fetched or done

rowVars == <<constructor, attr, row, objects, rowerr, rpc>>

\* --- SpecDelete: delete_instance(recursive=True) on an instance of model 1
VARIABLES
    fks,              \* the foreign keys of the schema in declaration order: model, rel_model, null
    delete_nullable,  \* the delete_nullable argument
    stack,            \* dependencies(): the stack of model classes
    seen,             \* dependencies(): the classes seen
    deps,             \* dependencies(): the foreign keys yielded so far
    todo,             \* delete_instance: the dependencies not yet handled
    dstmts,           \* the statements issued: kind and model
    dpc              \* built, walk, issue or done

delVars == <<fks, delete_nullable, stack, seen, deps, todo, dstmts, dpc>>

\* --- SpecCursor: a CursorWrapper over a driver cursor
VARIABLES
    total,            \* rows of the driver cursor: row k of it is the value k
    cw,               \* the wrapper and its cursor: count, row_cache, populated; pos, closes, fetches
    iters,            \* index of each ResultIterator made by __iter__, -1 before it is made
    cop              \* the last operation on the wrapper: its arguments, result and what it saw before

cwVars == <<total, cw, iters, cop>>

\* --- SpecMeta: the Metadata of the model classes
VARIABLES
    field_objs,       \* the Field objects made: model bound to, rel_model (0: not a foreign key)
    fields,           \* _meta.fields of each model: name -> Field object, 0 when absent
    refs,             \* _meta.refs of each model: the keys of the dict
    model_refs,       \* _meta.model_refs of each model: rel_model -> fields
    backrefs,         \* _meta.backrefs of each model: the keys of the dict
    model_backrefs,   \* _meta.model_backrefs of each model: model -> fields
    mop              \* the last operation on a Metadata and the exception it raised

metaVars == <<field_objs, fields, refs, model_refs, backrefs, model_backrefs, mop>>

\* --- SpecQuery: Select and ModelSelect objects and the lists they hold
VARIABLES
    queries,          \* the query objects: their class and their attributes
    from_lists,       \* the list objects made for _from_list, by the query that made them
    joins,            \* the dict objects made for _joins, by the query that made them
    qop              \* the last call: its name, the query it was called on, the query returned

qVars == <<queries, from_lists, joins, qop>>

\* --- SpecAlias: the AliasManager of one Context during one render
VARIABLES
    counter,          \* AliasManager._counter
    current_index,    \* AliasManager._current_index
    mapping,          \* AliasManager._mapping: per scope, source -> N of its alias tN, 0 when absent
    rendered,         \* the (source, alias) pairs written to the sql so far
    aop              \* the last call on the manager and the exception it raised

amVars == <<counter, current_index, mapping, rendered, aop>>

\* --- SpecConnErr: one caller, a driver and hooks that can fail
VARIABLES
    deferred,         \* Database.deferred
    ce,               \* the _ConnectionState: closed, conn, transactions
    live,             \* driver connections that are open
    eop              \* the last call: its arguments, what it raised and returned, the state before

ceVars == <<deferred, ce, live, eop>>

\* --- SpecContext: one Context during one render
VARIABLES
    ctx,              \* the Context: state, stack, _values
    scopes,           \* what the renderer has entered and not left: the node and the state before it
    xop              \* the last call on the Context

ctxVars == <<ctx, scopes, xop>>

\* --- SpecBuilder: one Select, one Insert and one instance with a composite key
VARIABLES
    for_update,       \* Database.for_update: the dialect supports FOR UPDATE
    sel,              \* the Select the program holds: _for_update, number of where() expressions
    ins,              \* the Insert the program holds: number of where() expressions
    key,              \* the values of the fields of the composite key of the instance
    bop              \* the last call: its argument, the exception it raised, what it left unchanged

bldVars == <<for_update, sel, ins, key, bop>>

\* --- SpecSort: sort_models, create_tables and drop_tables on a list of models
VARIABLES
    models,           \* the models handed to the call
    edges,            \* what the models declare, in declaration order: model, rel_model, foreign key or depends_on
    ordering,         \* what sort_models returned
    tables,           \* the tables of the database, in the order they were created
    dropped,          \* the tables dropped, in the order they were dropped
    sop              \* the last call

srtVars == <<models, edges, ordering, tables, dropped, sop>>

\* --- SpecSorted: the _SortedFieldList of one model
VARIABLES
    sort_key,         \* _sort_key of each Field object: 1 for a primary key and 2 otherwise, then _order
    sfl,              \* the list: _keys and _items
    inserted,         \* the fields inserted and not removed, in the order of their insertion
    fop              \* the last call and the exception it raised

sflVars == <<sort_key, sfl, inserted, fop>>

\* --- SpecBind: models bound to databases and one binding context
VARIABLES
    database,         \* _meta.database of each model
    fkeys,            \* the foreign keys of the models: pairs of model and rel_model
    bctx,             \* the _BoundModelsContext entered: its arguments, _orig_database, the bindings before and after entry
    nop              \* the last call

bndVars == <<database, fkeys, bctx, nop>>

auxVars == <<instVars, pfVars, rowVars, delVars, cwVars, metaVars, qVars, amVars, ceVars, ctxVars, bldVars, srtVars, sflVars, bndVars>>

\* What the operations on one group leave alone.
KeepInst == UNCHANGED <<txnVars, connVars, pfVars, rowVars, delVars, cwVars, metaVars, qVars, amVars, ceVars, ctxVars, bldVars, srtVars, sflVars, bndVars>>
KeepPf == UNCHANGED <<txnVars, connVars, instVars, rowVars, delVars, cwVars, metaVars, qVars, amVars, ceVars, ctxVars, bldVars, srtVars, sflVars, bndVars>>
KeepRow == UNCHANGED <<txnVars, connVars, instVars, pfVars, delVars, cwVars, metaVars, qVars, amVars, ceVars, ctxVars, bldVars, srtVars, sflVars, bndVars>>
KeepDel == UNCHANGED <<txnVars, connVars, instVars, pfVars, rowVars, cwVars, metaVars, qVars, amVars, ceVars, ctxVars, bldVars, srtVars, sflVars, bndVars>>
KeepCw == UNCHANGED <<txnVars, connVars, instVars, pfVars, rowVars, delVars, metaVars, qVars, amVars, ceVars, ctxVars, bldVars, srtVars, sflVars, bndVars>>
KeepMeta == UNCHANGED <<txnVars, connVars, instVars, pfVars, rowVars, delVars, cwVars, qVars, amVars, ceVars, ctxVars, bldVars, srtVars, sflVars, bndVars>>
KeepQ == UNCHANGED <<txnVars, connVars, instVars, pfVars, rowVars, delVars, cwVars, metaVars, amVars, ceVars, ctxVars, bldVars, srtVars, sflVars, bndVars>>
KeepAm == UNCHANGED <<txnVars, connVars, instVars, pfVars, rowVars, delVars, cwVars, metaVars, qVars, ceVars, ctxVars, bldVars, srtVars, sflVars, bndVars>>
KeepCe == UNCHANGED <<txnVars, connVars, instVars, pfVars, rowVars, delVars, cwVars, metaVars, qVars, amVars, ctxVars, bldVars, srtVars, sflVars, bndVars>>
KeepCtx == UNCHANGED <<txnVars, connVars, instVars, pfVars, rowVars, delVars, cwVars, metaVars, qVars, amVars, ceVars, bldVars, srtVars, sflVars, bndVars>>
KeepBld == UNCHANGED <<txnVars, connVars, instVars, pfVars, rowVars, delVars, cwVars, metaVars, qVars, amVars, ceVars, ctxVars, srtVars, sflVars, bndVars>>
KeepSrt == UNCHANGED <<txnVars, connVars, instVars, pfVars, rowVars, delVars, cwVars, metaVars, qVars, amVars, ceVars, ctxVars, bldVars, sflVars, bndVars>>
KeepSfl == UNCHANGED <<txnVars, connVars, instVars, pfVars, rowVars, delVars, cwVars, metaVars, qVars, amVars, ceVars, ctxVars, bldVars, srtVars, bndVars>>
KeepBnd == UNCHANGED <<txnVars, connVars, instVars, pfVars, rowVars, delVars, cwVars, metaVars, qVars, amVars, ceVars, ctxVars, bldVars, srtVars, sflVars>>

vars == <<txnVars, connVars, auxVars>>

\* ---------------------------------------------------------------- helpers
\* One driver call: k is COMMIT, ROLLBACK, BEGIN, SAVEPOINT, RELEASE,
\* ROLLBACKTO, INSERT or SELECT; a is the savepoint id or the row; ok tells
\* whether the driver raised.
Call(k, a, ok) == [k |-> k, a |-> a, ok |-> ok]

Count(s, k) == Cardinality({i \in DOMAIN s : s[i].k = k})
Has(s, k) == \E i \in DOMAIN s : s[i].k = k
HasFor(s, k, a) == \E i \in DOMAIN s : s[i].k = k /\ s[i].a = a

\* The last position of savepoint sid in a savepoint list, 0 when absent.
SpIndex(sps, sid) ==
    LET hits == {i \in DOMAIN sps : sps[i].sid = sid}
    IN IF hits = {} THEN 0 ELSE CHOOSE i \in hits : \A j \in hits : j <= i

\* ---------------------------------------------------------------- dialects
\* SqliteDatabase: commit_select = False, begin() executes BEGIN, and the
\* connection is in autocommit mode (isolation_level = None).
\* PostgresqlDatabase / MySQLDatabase: commit_select = True, begin() is the
\* inherited no-op, and the DB-API driver opens a transaction implicitly on
\* the first statement.
Sqlite == [name |-> "sqlite", commit_select |-> FALSE, begin_sql |-> TRUE]
Postgresql == [name |-> "postgresql", commit_select |-> TRUE, begin_sql |-> FALSE]
Dialects == {Sqlite, Postgresql}

\* ------------------------------------------------------------ the driver
\* A fresh connection sees the committed rows and has no transaction.
DrvConnect(c) ==
    [persisted |-> c.persisted, work |-> c.persisted,
     inTxn |-> FALSE, spTxn |-> FALSE, sps |-> <<>>]

\* conn.commit()
DrvCommit(c) ==
    [c EXCEPT !.persisted = c.work, !.inTxn = FALSE, !.spTxn = FALSE,
              !.sps = <<>>]

\* conn.rollback()
DrvRollback(c) ==
    [c EXCEPT !.work = c.persisted, !.inTxn = FALSE, !.spTxn = FALSE,
              !.sps = <<>>]

\* The implicit transaction of a DB-API driver that is not in autocommit mode.
DrvImplicit(c) ==
    IF dialect.begin_sql THEN c ELSE [c EXCEPT !.inTxn = TRUE]

\* cursor.execute(sql): the new connection state and whether it succeeded.
DrvExecute(c, s) ==
    CASE s.k = "BEGIN" ->
           IF c.inTxn THEN [c |-> c, ok |-> FALSE]
           ELSE [c |-> [c EXCEPT !.inTxn = TRUE], ok |-> TRUE]
      [] s.k = "INSERT" ->
           LET c1 == DrvImplicit(c)
               c2 == [c1 EXCEPT !.work = @ \cup {s.a}]
           IN [c |-> IF c2.inTxn THEN c2
                     ELSE [c2 EXCEPT !.persisted = @ \cup {s.a}],
               ok |-> TRUE]
      [] s.k = "SELECT" -> [c |-> DrvImplicit(c), ok |-> TRUE]
      [] s.k = "SAVEPOINT" ->
           LET c1 == IF c.inTxn THEN c
                     ELSE [c EXCEPT !.inTxn = TRUE,
                                    !.spTxn = dialect.begin_sql]
           IN [c |-> [c1 EXCEPT !.sps = Append(@, [sid |-> s.a,
                                                   snap |-> c1.work])],
               ok |-> TRUE]
      [] s.k = "RELEASE" ->
           LET i == SpIndex(c.sps, s.a)
               c1 == [c EXCEPT !.sps = SubSeq(@, 1, i - 1)]
           IN IF i = 0 THEN [c |-> c, ok |-> FALSE]
              ELSE [c |-> IF c1.spTxn /\ c1.sps = <<>> THEN DrvCommit(c1)
                          ELSE c1,
                    ok |-> TRUE]
      [] s.k = "ROLLBACKTO" ->
           LET i == SpIndex(c.sps, s.a)
           IN IF i = 0 THEN [c |-> c, ok |-> FALSE]
              ELSE [c |-> [c EXCEPT !.work = c.sps[i].snap,
                                    !.sps = SubSeq(@, 1, i)],
                    ok |-> TRUE]

\* ------------------------------------------------- Database, on a record
\* The operations below work on st = [closed, txs, srv, out, err]: the
\* connection state, the server, the driver calls made so far by the running
\* operation and the exception it is raising ("none" when it is not).
\* Only({e : x \in {d}}) is e with x naming the value of d: the state an
\* operation leaves is computed once and handed to the next one by name.
Only(S) == CHOOSE x \in S : TRUE

Raise(st, e) == [st EXCEPT !.err = e]
Failed(st) == st.err # "none"

in_transaction(st) == st.txs # <<>>
transaction_depth(st) == Len(st.txs)
top_transaction(st) == IF st.txs = <<>> THEN [id |-> 0, kind |-> "none"]
                       ELSE st.txs[Len(st.txs)]
push_transaction(st, f) == [st EXCEPT !.txs = Append(@, f)]

\* list.pop() on the frame stack.
pop_transaction(st) ==
    IF st.txs = <<>> THEN Raise(st, "IndexError")
    ELSE [st EXCEPT !.txs = SubSeq(@, 1, Len(@) - 1)]

\* Database.connect(reuse_if_open=False) of an initialized database:
\* reset() empties the frame stack before the connection is installed.
connect(st) ==
    IF ~st.closed THEN Raise(st, "OperationalError")
    ELSE [st EXCEPT !.txs = <<>>, !.closed = FALSE,
                    !.srv = DrvConnect(st.srv)]

\* Database.close(): the driver connection is closed (uncommitted work is
\* lost) and the state is reset.
close(st) ==
    [st EXCEPT !.txs = <<>>, !.closed = TRUE,
               !.srv = IF st.closed THEN @ ELSE DrvConnect(@)]

\* Database.cursor(): connects when the connection is closed.
cursor(st) == IF st.closed THEN connect(st) ELSE st

\* Database.commit(): self._state.conn.commit(); cok: the driver succeeds.
commit(st, cok) ==
    IF st.closed THEN Raise(st, "AttributeError")
    ELSE IF cok
         THEN [st EXCEPT !.srv = DrvCommit(@),
                         !.out = Append(@, Call("COMMIT", 0, TRUE))]
         ELSE [st EXCEPT !.out = Append(@, Call("COMMIT", 0, FALSE)),
                         !.err = "DriverError"]

\* Database.rollback(): self._state.conn.rollback()
rollback(st) ==
    IF st.closed THEN Raise(st, "AttributeError")
    ELSE [st EXCEPT !.srv = DrvRollback(@),
                    !.out = Append(@, Call("ROLLBACK", 0, TRUE))]

\* sql[:6].lower().startswith('select')
IsSelect(s) == s.k = "SELECT"

\* The commit flag execute_sql settles on before it runs the statement.
CommitFlag(st, s, flag) ==
    IF flag = "sentinel"
    THEN IF in_transaction(st) THEN FALSE
         ELSE IF dialect.commit_select THEN TRUE
         ELSE ~IsSelect(s)
    ELSE flag = "true"

\* cursor.execute(sql, params) on the state cursor() left. sok: the
\* statement is one the server accepts (no constraint violation).
CursorExecute(s1, s, sok) ==
    Only({[s1 EXCEPT !.srv = r.c,
                     !.out = Append(@, Call(s.k, s.a, r.ok)),
                     !.err = IF r.ok THEN @ ELSE "DatabaseError"]
          : r \in {IF sok THEN DrvExecute(s1.srv, s)
                   ELSE [c |-> s1.srv, ok |-> FALSE]}})

\* The except and else clauses of execute_sql.
AfterExecute(s2, cflag, cok) ==
    IF Failed(s2)
    THEN IF autorollback /\ ~in_transaction(s2)
         THEN Raise(rollback(s2), "DatabaseError")
         ELSE s2
    ELSE IF cflag /\ ~in_transaction(s2) THEN commit(s2, cok) ELSE s2

\* Database.execute_sql(sql, params, commit=flag); cok: a commit succeeds.
execute_sql(st, s, flag, sok, cok) ==
    Only({Only({AfterExecute(s2, CommitFlag(st, s, flag), cok)
                : s2 \in {CursorExecute(s1, s, sok)}})
          : s1 \in {cursor(st)}})

\* Database.begin() / SqliteDatabase.begin()
begin(st) ==
    IF dialect.begin_sql
    THEN execute_sql(st, Call("BEGIN", 0, TRUE), "false", TRUE, TRUE)
    ELSE st


\* ------------------------------------------------------------- the frames
\* _manual.__enter__
manual_enter(st, f) ==
    IF in_transaction(st) /\ top_transaction(st).kind # "manual"
    THEN Raise(st, "ValueError")
    ELSE push_transaction(st, f)

\* _manual.__exit__: the pop comes first, the comparison after it.
manual_exit(st, f) ==
    Only({IF Failed(p) THEN p
          ELSE IF top_transaction(st).id # f.id THEN Raise(p, "ValueError")
          ELSE p
          : p \in {pop_transaction(st)}})

\* _transaction.commit(begin) and _transaction.rollback(begin)
transaction_commit(st, dobegin, cok) ==
    Only({IF Failed(c) \/ ~dobegin THEN c ELSE begin(c)
          : c \in {commit(st, cok)}})

transaction_rollback(st, dobegin) ==
    Only({IF Failed(r) \/ ~dobegin THEN r ELSE begin(r)
          : r \in {rollback(st)}})

\* _transaction.__enter__
transaction_enter(st, f) ==
    Only({IF Failed(b) THEN b ELSE push_transaction(b, f)
          : b \in {IF transaction_depth(st) = 0 THEN begin(st) ELSE st}})

\* `except: self.rollback(False); raise` after a commit that failed with e.
RollbackAndRaise(c, e) ==
    Only({IF Failed(r) THEN r ELSE Raise(r, e)
          : r \in {transaction_rollback(c, FALSE)}})

\* The try block of _transaction.__exit__.
TransactionExitBody(st, excIn, cok) ==
    IF excIn THEN transaction_rollback(st, FALSE)
    ELSE IF transaction_depth(st) = 1
    THEN Only({IF ~Failed(c) THEN c
               ELSE RollbackAndRaise([c EXCEPT !.err = "none"], c.err)
               : c \in {transaction_commit(st, FALSE, cok)}})
    ELSE st

\* _transaction.__exit__: the finally clause pops whatever is on top.
transaction_exit(st, f, excIn, cok) ==
    Only({pop_transaction(b) : b \in {TransactionExitBody(st, excIn, cok)}})

\* _savepoint._begin, commit(begin), rollback
savepoint_begin(st, f, cok) ==
    execute_sql(st, Call("SAVEPOINT", f.id, TRUE), "sentinel", TRUE, cok)

savepoint_commit(st, f, dobegin, cok) ==
    Only({IF Failed(c) \/ ~dobegin THEN c ELSE savepoint_begin(c, f, cok)
          : c \in {execute_sql(st, Call("RELEASE", f.id, TRUE), "sentinel",
                               TRUE, cok)}})

savepoint_rollback(st, f, cok) ==
    execute_sql(st, Call("ROLLBACKTO", f.id, TRUE), "sentinel", TRUE, cok)

\* _savepoint.__enter__ and __exit__: the frame stack is not touched.
savepoint_enter(st, f, cok) == savepoint_begin(st, f, cok)

\* `except: self.rollback(); raise` after a release that failed with e.
SavepointRollbackAndRaise(c, f, cok, e) ==
    Only({IF Failed(r) THEN r ELSE Raise(r, e)
          : r \in {savepoint_rollback(c, f, cok)}})

savepoint_exit(st, f, excIn, cok) ==
    IF excIn THEN savepoint_rollback(st, f, cok)
    ELSE Only({IF ~Failed(c) THEN c
               ELSE Only({SavepointRollbackAndRaise(c0, f, cok, c.err)
                          : c0 \in {[c EXCEPT !.err = "none"]}})
               : c \in {savepoint_commit(st, f, FALSE, cok)}})

\* _atomic.__enter__: the helper it picks, and the call it makes.
AtomicHelper(st) ==
    IF transaction_depth(st) = 0 THEN "transaction" ELSE "savepoint"

atomic_enter(st, f, cok) ==
    IF transaction_depth(st) = 0 THEN transaction_enter(st, f)
    ELSE IF top_transaction(st).kind = "manual" THEN Raise(st, "ValueError")
    ELSE savepoint_enter(st, f, cok)

\* __enter__ and __exit__ of a context manager of the given kind.
FrameEnter(st, f, cok) ==
    CASE f.kind = "manual" -> manual_enter(st, f)
      [] f.kind = "transaction" -> transaction_enter(st, f)
      [] f.kind = "savepoint" -> savepoint_enter(st, f, cok)

FrameExit(st, f, excIn, cok) ==
    CASE f.kind = "manual" -> manual_exit(st, f)
      [] f.kind = "transaction" -> transaction_exit(st, f, excIn, cok)
      [] f.kind = "savepoint" -> savepoint_exit(st, f, excIn, cok)

\* txn.commit() / txn.rollback() called by the body on a frame object.
FrameCommit(st, f, cok) ==
    IF f.kind = "transaction" THEN transaction_commit(st, TRUE, cok)
    ELSE savepoint_commit(st, f, TRUE, cok)

FrameRollback(st, f, cok) ==
    IF f.kind = "transaction" THEN transaction_rollback(st, TRUE)
    ELSE savepoint_rollback(st, f, cok)


\* ----------------------------------------------------- the calling program
\* The state an operation starts from.
Pre == [closed |-> closed, txs |-> transactions, srv |-> server,
        out |-> <<>>, err |-> "none"]

Stmts == {"INSERT", "SELECT"}
Flags == {"sentinel", "true", "false"}

KindsOf(o) == {o[i].kind : i \in DOMAIN o}
IdsOf(o) == {o[i].id : i \in DOMAIN o}
Without(o, i) == SubSeq(o, 1, i - 1) \o SubSeq(o, i + 1, Len(o))
Least(S) == CHOOSE x \in S : \A y \in S : x <= y

\* Savepoint ids are uuids: a new context manager gets an id that no open
\* block and no savepoint of the server carries.
FreeFrameIds == FrameIds \ (IdsOf(open) \cup {server.sps[i].sid :
                                               i \in DOMAIN server.sps})
\* A new row is one the table does not hold.
FreeRowIds == RowIds \ (server.work \cup server.persisted)

\* What is recorded of an operation: the frame or statement it was about,
\* the commit flag it was given, whether an exception was propagating into
\* it (excIn), what it raised (err), the frame stack before it (depth0,
\* top0), whether it left the frame stack as it was (same) and the kinds of
\* the blocks open around it. op is "enter" for a context manager entered
\* directly and "atomic" for one entered through db.atomic().
Op(op, kind, id, flag, excIn, st, around) ==
    [op |-> op, kind |-> kind, id |-> id, flag |-> flag, excIn |-> excIn,
     err |-> st.err,
     depth0 |-> Len(transactions),
     top0 |-> top_transaction(Pre),
     same |-> (st.txs = transactions),
     around |-> KindsOf(around)]

Quiet(op) == Op(op, "none", 0, "none", FALSE, Pre, <<>>)

\* The history of the outermost block: its kind, whether it and every block
\* inside it was made by atomic(), whether a transaction() or manual_commit()
\* was entered inside it (foreign), whether commit() or rollback() was called
\* on a frame object (explicit), and whether the driver refused a call.
BlkNone == [kind |-> "none", allAtomic |-> TRUE, foreign |-> FALSE,
            explicit |-> FALSE, driverFailed |-> FALSE]

BlkSeen(b, st) ==
    [b EXCEPT !.driverFailed = @ \/ \E i \in DOMAIN st.out : ~st.out[i].ok]

\* The history once a block of kind k is entered, through atomic() or not.
BlkEntered(k, viaAtomic) ==
    IF open = <<>>
    THEN [BlkNone EXCEPT !.kind = k, !.allAtomic = viaAtomic]
    ELSE [blk EXCEPT !.allAtomic = @ /\ viaAtomic,
                     !.foreign = @ \/ (~viaAtomic /\ k # "savepoint")]

\* What the program expects of a row: written in the current outermost
\* block ("in") or not, the open blocks whose fate it still shares (encl),
\* and whether one of them was rolled back after the row was written (dead).
RowNone == [st |-> "none", encl |-> {}, dead |-> FALSE]
RowsOut(rw) == [r \in DOMAIN rw |-> RowNone]
\* The current segment of block id ends: kept (commit, normal exit) or
\* rolled back (rollback, exit with an exception).
RowsEnd(rw, id, kept) ==
    [r \in DOMAIN rw |->
       IF id \notin rw[r].encl THEN rw[r]
       ELSE IF kept THEN [rw[r] EXCEPT !.encl = @ \ {id}]
       ELSE [rw[r] EXCEPT !.dead = TRUE]]

\* The effect of an operation on the variables every operation sets.
Effect(st, l) ==
    /\ closed' = st.closed
    /\ transactions' = st.txs
    /\ server' = st.srv
    /\ issued' = st.out
    /\ last' = l
    /\ UNCHANGED <<dialect, autorollback, connVars, auxVars>>

\* db.connect()
DoConnect ==
    /\ ~exc
    /\ \E st \in {connect(Pre)} :
          /\ Effect(st, Op("connect", "none", 0, "none", FALSE, st, open))
          /\ exc' = Failed(st)
          /\ blk' = IF open = <<>> THEN BlkNone ELSE BlkSeen(blk, st)
          /\ rows' = IF open = <<>> THEN RowsOut(rows) ELSE rows
    /\ UNCHANGED open

\* db.close(), between blocks
DoClose ==
    /\ ~exc
    /\ open = <<>>
    /\ \E st \in {close(Pre)} :
          /\ Effect(st, Op("close", "none", 0, "none", FALSE, st, open))
          /\ exc' = Failed(st)
          /\ blk' = BlkNone
          /\ rows' = RowsOut(rows)
    /\ UNCHANGED open

\* with db.transaction(): / with db.savepoint(): / with db.manual_commit():
\* / with db.atomic():
DoEnter(kind, viaAtomic) ==
    /\ ~exc
    /\ FreeFrameIds # {}
    /\ \E cok \in BOOLEAN,
          f \in {[id |-> Least(FreeFrameIds),
                  kind |-> IF viaAtomic THEN AtomicHelper(Pre) ELSE kind]} :
         \E st \in {IF viaAtomic THEN atomic_enter(Pre, f, cok)
                     ELSE FrameEnter(Pre, f, cok)} :
            /\ Effect(st, Op(IF viaAtomic THEN "atomic" ELSE "enter", f.kind,
                             f.id, "none", FALSE, st, open))
            /\ exc' = Failed(st)
            /\ open' = IF Failed(st) THEN open ELSE Append(open, f)
            /\ blk' = IF open = <<>> /\ Failed(st) THEN BlkNone
                      ELSE BlkSeen(BlkEntered(f.kind, viaAtomic), st)
            /\ rows' = IF open = <<>> THEN RowsOut(rows) ELSE rows

DoEnterTransaction == DoEnter("transaction", FALSE)
DoEnterSavepoint == DoEnter("savepoint", FALSE)
DoEnterManual == DoEnter("manual", FALSE)
DoEnterAtomic == DoEnter("atomic", TRUE)

\* __exit__ of open block number i. raised: the body raised; an exception
\* may also be propagating out of an inner block.
ExitAt(i) ==
    \E raised \in BOOLEAN, cok \in BOOLEAN, f \in {open[i]} :
      \E excIn \in {exc \/ raised} :
        \E st \in {FrameExit(Pre, f, excIn, cok)} :
          /\ Effect(st, Op("exit", f.kind, f.id, "none", excIn, st,
                           Without(open, i)))
          /\ exc' = (excIn \/ Failed(st))
          /\ open' = Without(open, i)
          /\ blk' = BlkSeen(blk, st)
          /\ rows' = RowsEnd(rows, f.id, ~excIn)

\* The end of the innermost with block.
DoExit ==
    /\ open # <<>>
    /\ ExitAt(Len(open))

\* __exit__ called on a context manager that is not the innermost one.
DoExitOutOfOrder ==
    \E i \in DOMAIN open :
        /\ i < Len(open)
        /\ ExitAt(i)

\* An except clause around the block that raised catches the exception.
DoCatch ==
    /\ exc
    /\ exc' = FALSE
    /\ Effect(Pre, Quiet("catch"))
    /\ blk' = IF open = <<>> THEN BlkNone ELSE blk
    /\ rows' = IF open = <<>> THEN RowsOut(rows) ELSE rows
    /\ UNCHANGED open

\* db.execute_sql(sql, commit=flag) called by the body or between blocks: a
\* SELECT, or an INSERT of one and the same row.
DoExecute ==
    /\ ~exc
    /\ \E k \in Stmts, flag \in Flags, sok \in BOOLEAN, cok \in BOOLEAN :
         \E s \in {Call(k, IF k = "INSERT" THEN Least(RowIds) ELSE 0, TRUE)} :
           \E st \in {execute_sql(Pre, s, flag, sok, cok)} :
              /\ Effect(st, Op("execute", k, s.a, flag, FALSE, st, open))
              /\ exc' = Failed(st)
              /\ blk' = IF open = <<>> THEN BlkNone ELSE BlkSeen(blk, st)
              /\ rows' = rows
    /\ UNCHANGED open

\* Model.create(...) in the body of a block: execute_sql of an INSERT of a
\* new row with the default commit flag.
DoWrite ==
    /\ ~exc
    /\ open # <<>>
    /\ FreeRowIds # {}
    /\ \E cok \in BOOLEAN, s \in {Call("INSERT", Least(FreeRowIds), TRUE)} :
         \E st \in {execute_sql(Pre, s, "sentinel", TRUE, cok)} :
            /\ Effect(st, Op("write", "INSERT", s.a, "sentinel", FALSE, st,
                             open))
            /\ exc' = Failed(st)
            /\ blk' = BlkSeen(blk, st)
            /\ rows' = [rows EXCEPT ![s.a] =
                          [st |-> "in", encl |-> IdsOf(open),
                           dead |-> FALSE]]
    /\ UNCHANGED open

\* txn.commit() / txn.rollback() in the body of "with ... as txn".
DoExplicit(what) ==
    /\ ~exc
    /\ open # <<>>
    /\ \E cok \in BOOLEAN, f \in {open[Len(open)]} :
         /\ f.kind # "manual"
         /\ \E st \in {IF what = "commit" THEN FrameCommit(Pre, f, cok)
                        ELSE FrameRollback(Pre, f, cok)} :
              /\ Effect(st, Op(what, f.kind, f.id, "none", FALSE, st, open))
              /\ exc' = Failed(st)
              /\ blk' = BlkSeen([blk EXCEPT !.explicit = TRUE], st)
              /\ rows' = RowsEnd(rows, f.id, what = "commit")
    /\ UNCHANGED open

DoCommit == DoExplicit("commit")
DoRollback == DoExplicit("rollback")

\* ------------------------------------------------------- specifications
ConnIdle ==
    /\ thread_safe = TRUE
    /\ lock = 0
    /\ cstate = <<>>
    /\ pc = <<>>
    /\ is_open = <<>>
    /\ made = <<>>
    /\ drv = {}
    /\ ret = <<>>
    /\ actor = 0

\* The groups a specification does not use stay as they are here.
InstIdle ==
    /\ pkkind = "auto"
    /\ only_save_dirty = FALSE
    /\ data = <<>>
    /\ dirty = {}
    /\ rel = <<>>
    /\ stmts = <<>>
    /\ iop = <<>>

PfIdle ==
    /\ roots = <<>>
    /\ children = <<>>
    /\ pfpc = "idle"
    /\ notes = <<>>
    /\ parent = <<>>
    /\ executed = <<>>
    /\ wrapper = <<>>
    /\ got = <<>>

RowIdle ==
    /\ constructor = "model"
    /\ attr = "fk"
    /\ row = <<>>
    /\ objects = <<>>
    /\ rowerr = "none"
    /\ rpc = "idle"

DelIdle ==
    /\ fks = <<>>
    /\ delete_nullable = FALSE
    /\ stack = <<>>
    /\ seen = {}
    /\ deps = <<>>
    /\ todo = <<>>
    /\ dstmts = <<>>
    /\ dpc = "idle"

CwIdle ==
    /\ total = 0
    /\ cw = <<>>
    /\ iters = <<>>
    /\ cop = <<>>

MetaIdle ==
    /\ field_objs = <<>>
    /\ fields = <<>>
    /\ refs = <<>>
    /\ model_refs = <<>>
    /\ backrefs = <<>>
    /\ model_backrefs = <<>>
    /\ mop = <<>>

QIdle ==
    /\ queries = <<>>
    /\ from_lists = <<>>
    /\ joins = <<>>
    /\ qop = <<>>

AmIdle ==
    /\ counter = 0
    /\ current_index = 0
    /\ mapping = <<>>
    /\ rendered = {}
    /\ aop = <<>>

CeIdle ==
    /\ deferred = FALSE
    /\ ce = <<>>
    /\ live = {}
    /\ eop = <<>>

CtxIdle ==
    /\ ctx = <<>>
    /\ scopes = <<>>
    /\ xop = <<>>

BldIdle ==
    /\ for_update = FALSE
    /\ sel = <<>>
    /\ ins = <<>>
    /\ key = <<>>
    /\ bop = <<>>

SrtIdle ==
    /\ models = {}
    /\ edges = <<>>
    /\ ordering = <<>>
    /\ tables = <<>>
    /\ dropped = <<>>
    /\ sop = "idle"

SflIdle ==
    /\ sort_key = <<>>
    /\ sfl = <<>>
    /\ inserted = <<>>
    /\ fop = <<>>

BndIdle ==
    /\ database = <<>>
    /\ fkeys = {}
    /\ bctx = <<>>
    /\ nop = "idle"

\* The transaction manager and the threads are not used by the
\* specifications of the other groups.
TxnIdle ==
    /\ dialect = Sqlite
    /\ autorollback = FALSE
    /\ closed = TRUE
    /\ transactions = <<>>
    /\ server = [persisted |-> {}, work |-> {}, inTxn |-> FALSE,
                 spTxn |-> FALSE, sps |-> <<>>]
    /\ open = <<>>
    /\ exc = FALSE
    /\ issued = <<>>
    /\ last = Quiet("init")
    /\ blk = BlkNone
    /\ rows = [r \in RowIds |-> RowNone]

JustInst ==
    /\ TxnIdle
    /\ ConnIdle
    /\ PfIdle
    /\ RowIdle
    /\ DelIdle
    /\ CwIdle
    /\ MetaIdle
    /\ QIdle
    /\ AmIdle
    /\ CeIdle
    /\ CtxIdle
    /\ BldIdle
    /\ SrtIdle
    /\ SflIdle
    /\ BndIdle

JustPf ==
    /\ TxnIdle
    /\ ConnIdle
    /\ InstIdle
    /\ RowIdle
    /\ DelIdle
    /\ CwIdle
    /\ MetaIdle
    /\ QIdle
    /\ AmIdle
    /\ CeIdle
    /\ CtxIdle
    /\ BldIdle
    /\ SrtIdle
    /\ SflIdle
    /\ BndIdle

JustRow ==
    /\ TxnIdle
    /\ ConnIdle
    /\ InstIdle
    /\ PfIdle
    /\ DelIdle
    /\ CwIdle
    /\ MetaIdle
    /\ QIdle
    /\ AmIdle
    /\ CeIdle
    /\ CtxIdle
    /\ BldIdle
    /\ SrtIdle
    /\ SflIdle
    /\ BndIdle

JustDel ==
    /\ TxnIdle
    /\ ConnIdle
    /\ InstIdle
    /\ PfIdle
    /\ RowIdle
    /\ CwIdle
    /\ MetaIdle
    /\ QIdle
    /\ AmIdle
    /\ CeIdle
    /\ CtxIdle
    /\ BldIdle
    /\ SrtIdle
    /\ SflIdle
    /\ BndIdle

JustCw ==
    /\ TxnIdle
    /\ ConnIdle
    /\ InstIdle
    /\ PfIdle
    /\ RowIdle
    /\ DelIdle
    /\ MetaIdle
    /\ QIdle
    /\ AmIdle
    /\ CeIdle
    /\ CtxIdle
    /\ BldIdle
    /\ SrtIdle
    /\ SflIdle
    /\ BndIdle

JustMeta ==
    /\ TxnIdle
    /\ ConnIdle
    /\ InstIdle
    /\ PfIdle
    /\ RowIdle
    /\ DelIdle
    /\ CwIdle
    /\ QIdle
    /\ AmIdle
    /\ CeIdle
    /\ CtxIdle
    /\ BldIdle
    /\ SrtIdle
    /\ SflIdle
    /\ BndIdle

JustQ ==
    /\ TxnIdle
    /\ ConnIdle
    /\ InstIdle
    /\ PfIdle
    /\ RowIdle
    /\ DelIdle
    /\ CwIdle
    /\ MetaIdle
    /\ AmIdle
    /\ CeIdle
    /\ CtxIdle
    /\ BldIdle
    /\ SrtIdle
    /\ SflIdle
    /\ BndIdle

JustAm ==
    /\ TxnIdle
    /\ ConnIdle
    /\ InstIdle
    /\ PfIdle
    /\ RowIdle
    /\ DelIdle
    /\ CwIdle
    /\ MetaIdle
    /\ QIdle
    /\ CeIdle
    /\ CtxIdle
    /\ BldIdle
    /\ SrtIdle
    /\ SflIdle
    /\ BndIdle

JustCe ==
    /\ TxnIdle
    /\ ConnIdle
    /\ InstIdle
    /\ PfIdle
    /\ RowIdle
    /\ DelIdle
    /\ CwIdle
    /\ MetaIdle
    /\ QIdle
    /\ AmIdle
    /\ CtxIdle
    /\ BldIdle
    /\ SrtIdle
    /\ SflIdle
    /\ BndIdle

JustCtx ==
    /\ TxnIdle
    /\ ConnIdle
    /\ InstIdle
    /\ PfIdle
    /\ RowIdle
    /\ DelIdle
    /\ CwIdle
    /\ MetaIdle
    /\ QIdle
    /\ AmIdle
    /\ CeIdle
    /\ BldIdle
    /\ SrtIdle
    /\ SflIdle
    /\ BndIdle

JustBld ==
    /\ TxnIdle
    /\ ConnIdle
    /\ InstIdle
    /\ PfIdle
    /\ RowIdle
    /\ DelIdle
    /\ CwIdle
    /\ MetaIdle
    /\ QIdle
    /\ AmIdle
    /\ CeIdle
    /\ CtxIdle
    /\ SrtIdle
    /\ SflIdle
    /\ BndIdle

JustSrt ==
    /\ TxnIdle
    /\ ConnIdle
    /\ InstIdle
    /\ PfIdle
    /\ RowIdle
    /\ DelIdle
    /\ CwIdle
    /\ MetaIdle
    /\ QIdle
    /\ AmIdle
    /\ CeIdle
    /\ CtxIdle
    /\ BldIdle
    /\ SflIdle
    /\ BndIdle

JustSfl ==
    /\ TxnIdle
    /\ ConnIdle
    /\ InstIdle
    /\ PfIdle
    /\ RowIdle
    /\ DelIdle
    /\ CwIdle
    /\ MetaIdle
    /\ QIdle
    /\ AmIdle
    /\ CeIdle
    /\ CtxIdle
    /\ BldIdle
    /\ SrtIdle
    /\ BndIdle

JustBnd ==
    /\ TxnIdle
    /\ ConnIdle
    /\ InstIdle
    /\ PfIdle
    /\ RowIdle
    /\ DelIdle
    /\ CwIdle
    /\ MetaIdle
    /\ QIdle
    /\ AmIdle
    /\ CeIdle
    /\ CtxIdle
    /\ BldIdle
    /\ SrtIdle
    /\ SflIdle

AuxIdle ==
    /\ InstIdle
    /\ PfIdle
    /\ RowIdle
    /\ DelIdle
    /\ CwIdle
    /\ MetaIdle
    /\ QIdle
    /\ AmIdle
    /\ CeIdle
    /\ CtxIdle
    /\ BldIdle
    /\ SrtIdle
    /\ SflIdle
    /\ BndIdle

\* A Database as constructed: closed, no frame; an empty table.
Init ==
    /\ dialect \in Dialects
    /\ autorollback \in BOOLEAN
    /\ closed = TRUE
    /\ transactions = <<>>
    /\ server = [persisted |-> {}, work |-> {}, inTxn |-> FALSE,
                 spTxn |-> FALSE, sps |-> <<>>]
    /\ open = <<>>
    /\ exc = FALSE
    /\ issued = <<>>
    /\ last = Quiet("init")
    /\ blk = BlkNone
    /\ rows = [r \in RowIds |-> RowNone]
    /\ ConnIdle
    /\ AuxIdle

\* One thread, blocks written as with statements (they end innermost
\* first), statements executed inside and between them.
Next ==
    \/ DoConnect
    \/ DoClose
    \/ DoEnterTransaction
    \/ DoEnterSavepoint
    \/ DoEnterManual
    \/ DoEnterAtomic
    \/ DoExit
    \/ DoCatch
    \/ DoExecute

Spec == Init /\ [][Next]_vars

\* The same program with context managers driven by hand: __exit__ may be
\* called in any order.
NextUnscoped ==
    \/ DoConnect
    \/ DoEnterTransaction
    \/ DoEnterSavepoint
    \/ DoEnterManual
    \/ DoEnterAtomic
    \/ DoExit
    \/ DoExitOutOfOrder
    \/ DoCatch

SpecUnscoped == Init /\ [][NextUnscoped]_vars

\* Blocks that write rows and call commit() and rollback() on their frame
\* objects.
NextRows ==
    \/ DoConnect
    \/ DoEnterAtomic
    \/ DoExit
    \/ DoCatch
    \/ DoWrite
    \/ DoCommit
    \/ DoRollback

SpecRows == Init /\ [][NextRows]_vars

\* ------------------------------------------------- threads and the lock
\* Database.__init__: with thread_safe the state is a _ConnectionLocal
\* (threading.local: every thread gets its own closed, conn and
\* transactions, initialised by reset() the first time the thread touches
\* it); without it the state is one _ConnectionState shared by all callers.
\* One state for all threads.
SlotShared(t) == 1
Slot(t) == IF thread_safe THEN t ELSE 1

\* _ConnectionState.reset()
reset(cs) == [cs EXCEPT !.closed = TRUE, !.conn = 0, !.transactions = <<>>]

\* _ConnectionState.set_connection(conn)
set_connection(cs, c) == [cs EXCEPT !.conn = c, !.closed = FALSE]

\* `with self._lock:` on entry. threading.Lock blocks while another thread
\* holds it; _NoopLock.__enter__ returns at once.
\* A lock that never blocks.
CanAcquireNoop(t) == TRUE
CanAcquire(t) == IF thread_safe THEN lock = 0 ELSE TRUE
Acquired(t) == IF thread_safe THEN t ELSE lock

\* `with self._lock:` on exit, normal or by an exception.
Released(t) == IF thread_safe THEN 0 ELSE lock

\* Connection handles the driver can hand out: not open, and referenced by
\* no state and no caller.
FreeConnIds ==
    {c \in ConnIds : /\ c \notin drv
                     /\ \A u \in Threads : cstate[u].conn # c /\ made[u] # c}

\* What a step of thread t leaves alone.
Step(t) ==
    /\ actor' = t
    /\ UNCHANGED <<thread_safe, txnVars, auxVars>>

At(t, where) == pc[t] = where
Goto(t, where) == pc' = [pc EXCEPT ![t] = where]
Return(t, value) == ret' = [ret EXCEPT ![t] = value]

\* A thread calls connect() and reaches `with self._lock:`.
ConnectCall(t) ==
    /\ At(t, "idle")
    /\ Goto(t, "connect_lock")
    /\ Return(t, "none")
    /\ UNCHANGED <<lock, cstate, is_open, made, drv>>
    /\ Step(t)

ConnectAcquire(t) ==
    /\ At(t, "connect_lock")
    /\ CanAcquire(t)
    /\ lock' = Acquired(t)
    /\ Goto(t, "connect_check")
    /\ UNCHANGED <<cstate, is_open, made, drv, ret>>
    /\ Step(t)

\* `if not self._state.closed: raise OperationalError(...)`
ConnectCheck(t) ==
    /\ At(t, "connect_check")
    /\ IF ~cstate[Slot(t)].closed
       THEN /\ Return(t, "OperationalError")
            /\ lock' = Released(t)
            /\ Goto(t, "idle")
       ELSE /\ Goto(t, "connect_reset")
            /\ UNCHANGED <<lock, ret>>
    /\ UNCHANGED <<cstate, is_open, made, drv>>
    /\ Step(t)

\* `self._state.reset()`
ConnectReset(t) ==
    /\ At(t, "connect_reset")
    /\ cstate' = [cstate EXCEPT ![Slot(t)] = reset(@)]
    /\ Goto(t, "connect_open")
    /\ UNCHANGED <<lock, is_open, made, drv, ret>>
    /\ Step(t)

\* `self._connect()`: the driver opens a connection, or fails and the
\* exception leaves connect() through the lock.
ConnectOpen(t) ==
    /\ At(t, "connect_open")
    /\ \/ /\ FreeConnIds # {}
          /\ made' = [made EXCEPT ![t] = Least(FreeConnIds)]
          /\ drv' = drv \cup {Least(FreeConnIds)}
          /\ Goto(t, "connect_set")
          /\ UNCHANGED <<lock, ret>>
       \/ /\ Return(t, "DriverError")
          /\ lock' = Released(t)
          /\ Goto(t, "idle")
          /\ UNCHANGED <<made, drv>>
    /\ UNCHANGED <<cstate, is_open>>
    /\ Step(t)

\* `self._state.set_connection(...)`, _initialize_connection (a no-op), the
\* lock released, `return True`.
ConnectSet(t) ==
    /\ At(t, "connect_set")
    /\ cstate' = [cstate EXCEPT ![Slot(t)] = set_connection(@, made[t])]
    /\ made' = [made EXCEPT ![t] = 0]
    /\ lock' = Released(t)
    /\ Return(t, "True")
    /\ Goto(t, "idle")
    /\ UNCHANGED <<is_open, drv>>
    /\ Step(t)

\* A thread calls close() and reaches `with self._lock:`.
CloseCall(t) ==
    /\ At(t, "idle")
    /\ Goto(t, "close_lock")
    /\ Return(t, "none")
    /\ UNCHANGED <<lock, cstate, is_open, made, drv>>
    /\ Step(t)

CloseAcquire(t) ==
    /\ At(t, "close_lock")
    /\ CanAcquire(t)
    /\ lock' = Acquired(t)
    /\ Goto(t, "close_check")
    /\ UNCHANGED <<cstate, is_open, made, drv, ret>>
    /\ Step(t)

\* `is_open = not self._state.closed`
CloseCheck(t) ==
    /\ At(t, "close_check")
    /\ is_open' = [is_open EXCEPT ![t] = ~cstate[Slot(t)].closed]
    /\ Goto(t, IF cstate[Slot(t)].closed THEN "close_reset" ELSE "close_conn")
    /\ UNCHANGED <<lock, cstate, made, drv, ret>>
    /\ Step(t)

\* `self._close(self._state.conn)`: conn.close(); when another caller has
\* reset the state in between, conn is None and the call raises.
CloseConn(t) ==
    /\ At(t, "close_conn")
    /\ IF cstate[Slot(t)].conn = 0
       THEN /\ Return(t, "AttributeError")
            /\ drv' = drv
       ELSE /\ drv' = drv \ {cstate[Slot(t)].conn}
            /\ UNCHANGED ret
    /\ Goto(t, "close_reset")
    /\ UNCHANGED <<lock, cstate, is_open, made>>
    /\ Step(t)

\* `finally: self._state.reset()`, then `return is_open` unless an
\* exception is on its way out; the lock released.
CloseReset(t) ==
    /\ At(t, "close_reset")
    /\ cstate' = [cstate EXCEPT ![Slot(t)] = reset(@)]
    /\ lock' = Released(t)
    /\ Return(t, IF ret[t] = "AttributeError" THEN ret[t]
                 ELSE IF is_open[t] THEN "True" ELSE "False")
    /\ is_open' = [is_open EXCEPT ![t] = FALSE]
    /\ Goto(t, "idle")
    /\ UNCHANGED <<made, drv>>
    /\ Step(t)

\* Database.push_transaction(), as a frame's __enter__ calls it.
Push(t) ==
    /\ At(t, "idle")
    /\ Len(cstate[Slot(t)].transactions) < MaxDepth
    /\ cstate' = [cstate EXCEPT ![Slot(t)].transactions = Append(@, t)]
    /\ Return(t, "none")
    /\ UNCHANGED <<lock, pc, is_open, made, drv>>
    /\ Step(t)

\* Database.pop_transaction(), as a frame's __exit__ calls it.
Pop(t) ==
    /\ At(t, "idle")
    /\ IF cstate[Slot(t)].transactions = <<>>
       THEN /\ Return(t, "IndexError")
            /\ UNCHANGED cstate
       ELSE /\ cstate' = [cstate EXCEPT ![Slot(t)].transactions =
                                            SubSeq(@, 1, Len(@) - 1)]
            /\ Return(t, "none")
    /\ UNCHANGED <<lock, pc, is_open, made, drv>>
    /\ Step(t)

DoConnectCall == \E t \in Threads : ConnectCall(t)
DoConnectAcquire == \E t \in Threads : ConnectAcquire(t)
DoConnectCheck == \E t \in Threads : ConnectCheck(t)
DoConnectReset == \E t \in Threads : ConnectReset(t)
DoConnectOpen == \E t \in Threads : ConnectOpen(t)
DoConnectSet == \E t \in Threads : ConnectSet(t)
DoCloseCall == \E t \in Threads : CloseCall(t)
DoCloseAcquire == \E t \in Threads : CloseAcquire(t)
DoCloseCheck == \E t \in Threads : CloseCheck(t)
DoCloseConn == \E t \in Threads : CloseConn(t)
DoCloseReset == \E t \in Threads : CloseReset(t)
DoPush == \E t \in Threads : Push(t)
DoPop == \E t \in Threads : Pop(t)

\* A Database as constructed, in either mode, and threads that have not
\* called it yet.
InitConn ==
    /\ dialect = Sqlite
    /\ autorollback = FALSE
    /\ closed = TRUE
    /\ transactions = <<>>
    /\ server = [persisted |-> {}, work |-> {}, inTxn |-> FALSE,
                 spTxn |-> FALSE, sps |-> <<>>]
    /\ open = <<>>
    /\ exc = FALSE
    /\ issued = <<>>
    /\ last = Quiet("init")
    /\ blk = BlkNone
    /\ rows = [r \in RowIds |-> RowNone]
    /\ thread_safe \in BOOLEAN
    /\ lock = 0
    /\ cstate = [t \in Threads |->
                    [closed |-> TRUE, conn |-> 0, transactions |-> <<>>]]
    /\ pc = [t \in Threads |-> "idle"]
    /\ is_open = [t \in Threads |-> FALSE]
    /\ made = [t \in Threads |-> 0]
    /\ drv = {}
    /\ ret = [t \in Threads |-> "none"]
    /\ actor = 0
    /\ AuxIdle

NextConn ==
    \/ DoConnectCall
    \/ DoConnectAcquire
    \/ DoConnectCheck
    \/ DoConnectReset
    \/ DoConnectOpen
    \/ DoConnectSet
    \/ DoCloseCall
    \/ DoCloseAcquire
    \/ DoCloseCheck
    \/ DoCloseConn
    \/ DoCloseReset
    \/ DoPush
    \/ DoPop

SpecConn == InitConn /\ [][NextConn]_vars

\* ------------------------------------------------------------- the claims
NoCommitNoRollback == ~Has(issued, "COMMIT") /\ ~Has(issued, "ROLLBACK")
Entered == last.op \in {"enter", "atomic"}

\* C1: when the outermost block is a transaction frame (db.transaction() or
\* the outermost db.atomic()), only atomic()/savepoint() blocks were entered
\* inside it, no commit()/rollback() was called on a frame object, the
\* connection is open and no driver commit failed, then its exit without an
\* exception issues exactly
\* one COMMIT and no ROLLBACK, and its exit with an exception issues exactly
\* one ROLLBACK and no COMMIT.
C1_OutermostExitOnce ==
    (/\ last.op = "exit"
     /\ open = <<>>
     /\ last.kind = "transaction"
     /\ ~blk.explicit
     /\ ~blk.foreign
     /\ ~closed
     /\ \A i \in DOMAIN issued : issued[i].k = "COMMIT" => issued[i].ok)
    => IF last.excIn
       THEN Count(issued, "ROLLBACK") = 1 /\ Count(issued, "COMMIT") = 0
       ELSE Count(issued, "COMMIT") = 1 /\ Count(issued, "ROLLBACK") = 0

\* C2: when the outermost atomic block, in which every block is an atomic
\* block and no commit()/rollback() was called on a frame object, ends
\* without an exception, the rows written in it that are persisted are
\* exactly those no enclosing block of which was left by an exception: the
\* writes of an inner block that raised are undone, the writes around it are
\* kept.
C2_NestedAtomicRollback ==
    (/\ last.op = "exit"
     /\ open = <<>>
     /\ ~last.excIn
     /\ blk.allAtomic
     /\ ~blk.explicit
     /\ ~blk.driverFailed)
    => \A r \in RowIds :
          rows[r].st = "in" => (r \in server.persisted <=> ~rows[r].dead)

\* C3: a savepoint block inside a transaction block issues SAVEPOINT sid when
\* it is entered; when it ends normally it issues RELEASE SAVEPOINT sid, and
\* no ROLLBACK TO unless the RELEASE failed; when it ends with an exception it
\* issues ROLLBACK TO SAVEPOINT sid and no RELEASE, and the exception goes on
\* propagating; none of the three issues a COMMIT or a ROLLBACK.
C3_SavepointStatements ==
    (last.kind = "savepoint" /\ "transaction" \in last.around)
    => /\ Entered /\ last.err = "none" =>
            /\ HasFor(issued, "SAVEPOINT", last.id)
            /\ NoCommitNoRollback
       /\ last.op = "exit" /\ ~last.excIn =>
            /\ HasFor(issued, "RELEASE", last.id)
            /\ (\A i \in DOMAIN issued : issued[i].ok) =>
                   ~Has(issued, "ROLLBACKTO")
            /\ NoCommitNoRollback
       /\ last.op = "exit" /\ last.excIn =>
            /\ HasFor(issued, "ROLLBACKTO", last.id)
            /\ ~Has(issued, "RELEASE")
            /\ NoCommitNoRollback
            /\ exc

\* C4: a transaction() frame entered while another transaction frame is on
\* the frame stack issues no BEGIN, and its exit, normal or with an
\* exception, issues neither COMMIT nor ROLLBACK.
C4_InnerTransactionSilent ==
    (last.kind = "transaction" /\ "transaction" \in last.around)
    => /\ last.op = "enter" /\ last.depth0 >= 1 => ~Has(issued, "BEGIN")
       /\ last.op = "exit" /\ last.depth0 >= 2 /\ last.top0.id = last.id =>
            NoCommitNoRollback

C6_MismatchedPopRaises ==
    (/\ last.op = "exit"
     /\ last.kind \in {"transaction", "manual"}
     /\ last.top0.id # last.id)
    => last.err # "none"

\* C7: entering manual_commit() while a transaction or savepoint block is
\* open, and entering atomic() while the top of the frame stack is a manual
\* frame, raise an error, leave the frame stack as it was and issue no SQL.
C7_ForbiddenEnterRaises ==
    ((last.op = "enter" /\ last.kind = "manual"
        /\ last.around \cap {"transaction", "savepoint"} # {})
     \/ (last.op = "atomic" /\ last.top0.kind = "manual"))
    => last.err # "none" /\ last.same /\ issued = <<>>

\* C8: execute_sql commits after a statement that succeeded exactly when the
\* frame stack was empty when it was called and the caller passed
\* commit=True, or passed no flag and the dialect sets commit_select or the
\* statement is not a SELECT.
C8_AutocommitRule ==
    (last.op = "execute" /\ issued # <<>>
       /\ \A i \in DOMAIN issued : issued[i].ok)
    => (Has(issued, "COMMIT") <=>
          /\ last.depth0 = 0
          /\ \/ last.flag = "true"
             \/ /\ last.flag = "sentinel"
                /\ (dialect.commit_select \/ last.kind # "SELECT"))

\* The connection state thread t sees through db._state.
View(t) == cstate[Slot(t)]

\* C9: in thread-safe mode a step of one thread (of connect, of close, a
\* frame push, a frame pop) leaves the closed flag, the connection handle
\* and the frame stack every other thread sees as they were.
C9_StatePerThread ==
    [][thread_safe =>
         \A t \in Threads : t # actor' => View(t)' = View(t)]_vars

\* Thread 1 is inside a frame on an open connection while thread 2, whose
\* close() has just returned True, has no connection and no frame.
C9_Witness ==
    /\ thread_safe
    /\ actor = 2
    /\ ret[2] = "True"
    /\ View(2).closed
    /\ View(2).transactions = <<>>
    /\ ~View(1).closed
    /\ View(1).conn \in drv
    /\ View(1).transactions # <<>>

InConnect(t) ==
    pc[t] \in {"connect_check", "connect_reset", "connect_open", "connect_set"}
InClose(t) == pc[t] \in {"close_check", "close_conn", "close_reset"}

\* Every open driver connection is installed in a state or about to be.
NoneOverwritten ==
    \A c \in drv : \E t \in Threads : cstate[t].conn = c \/ made[t] = c

\* Between the closed check of connect() and the installation of the new
\* connection nobody else is between the lock and the end of connect() or
\* close().
CheckAndInstallAtomic ==
    \A t, u \in Threads :
        (t # u /\ InConnect(t)) => ~InConnect(u) /\ ~InClose(u)

\* C10 as stated, for the locked and for the non-thread-safe mode alike:
\* whatever the interleaving of the callers, no driver connection is opened
\* and then overwritten in the state without being closed.
C10_NoRaceAnyMode == NoneOverwritten

\* C10, amended: with thread_safe set, connect() checks the closed flag
\* and installs the connection while it holds the lock, so no other caller
\* is inside connect() or close() in between, and no driver connection is
\* opened and then overwritten in the state without being closed.
C10_NoRaceLocked ==
    thread_safe => CheckAndInstallAtomic /\ NoneOverwritten

\* Thread 1 holds the lock and has opened a driver connection it has not
\* installed yet while thread 2 has called connect() and waits.
C10_Witness ==
    /\ thread_safe
    /\ lock = 1
    /\ pc[1] = "connect_set"
    /\ made[1] \in drv
    /\ pc[2] = "connect_lock"

\* =========================================================================
\* Model instances: field accessors and save()
\* =========================================================================
MaxVal == 2         \* field values are None (0) and 1..MaxVal

Values == 0..MaxVal
Fields == {"id", "part", "name", "user"}
PkKinds == {"auto", "plain", "composite"}

\* Metadata.primary_key: the field names of the key. A CompositeKey names
\* two fields of the model; otherwise the key is the field "id".
PkNames == IF pkkind = "composite" THEN {"id", "part"} ELSE {"id"}

\* Metadata.auto_increment
auto_increment == pkkind = "auto"

\* Model.get_id() / CompositeKey.__get__: None (0) for a single key whose
\* field is None; the tuple of the parts for a composite key, which is
\* never None.
get_id == IF pkkind = "composite" THEN <<data["id"], data["part"]>>
          ELSE data["id"]

\* `pk_value is not None` in save()
PkValueIsNone == pkkind # "composite" /\ data["id"] = 0

\* What is recorded of an operation on the instance: the field assigned or
\* the force_insert flag, the key before it, and the id the driver reported.
IOp(op, field, force, rid) ==
    [op |-> op, field |-> field, force |-> force, rid |-> rid,
     pk0 |-> [f \in PkNames |-> data[f]]]

\* FieldAccessor.__set__
FieldAccessor_set(f, v) ==
    /\ data' = [data EXCEPT ![f] = v]
    /\ dirty' = dirty \cup {f}
    /\ UNCHANGED rel

\* ForeignKeyAccessor.__set__: obj is a related instance (isinstance), whose
\* key is v, or the raw value v.
ForeignKeyAccessor_set(f, isinstance, v) ==
    /\ data' = [data EXCEPT ![f] = v]
    /\ rel' = IF isinstance THEN [cached |-> TRUE, pk |-> v]
              ELSE IF v # data[f] /\ rel.cached
                   THEN [cached |-> FALSE, pk |-> 0]
                   ELSE rel
    /\ UNCHANGED dirty

\* ObjectIdAccessor.__set__: setattr(instance, field.name, value)
ObjectIdAccessor_set(f, v) == ForeignKeyAccessor_set(f, FALSE, v)

\* instance.name = v, instance.id = v, instance.part = v
DoSetField ==
    \E f \in Fields \ {"user"}, v \in Values :
        /\ FieldAccessor_set(f, v)
        /\ stmts' = <<>>
        /\ iop' = IOp("set", f, FALSE, 0)
        /\ UNCHANGED <<pkkind, only_save_dirty>>
        /\ KeepInst

\* instance.user = obj, instance.user = v
DoSetForeignKey ==
    \E isinstance \in BOOLEAN, v \in Values :
        /\ ForeignKeyAccessor_set("user", isinstance, v)
        /\ stmts' = <<>>
        /\ iop' = IOp(IF isinstance THEN "set_rel" ELSE "set_raw", "user",
                      FALSE, 0)
        /\ UNCHANGED <<pkkind, only_save_dirty>>
        /\ KeepInst

\* instance.user_id = v
DoSetObjectId ==
    \E v \in Values :
        /\ ObjectIdAccessor_set("user", v)
        /\ stmts' = <<>>
        /\ iop' = IOp("set_id", "user", FALSE, 0)
        /\ UNCHANGED <<pkkind, only_save_dirty>>
        /\ KeepInst

\* The fields save() writes: all of __data__, or the dirty ones with
\* only_save_dirty (and without force_insert).
FieldDict(force) ==
    IF only_save_dirty /\ ~force THEN dirty ELSE Fields

\* Model.save(force_insert). rid is the id the driver reports for an INSERT:
\* the key given in the statement when there is one.
\* _populate_unsaved_relations changes nothing: it looks the field objects
\* of _meta.refs up in _dirty, which holds names.
save(force, rid) ==
    IF only_save_dirty /\ ~force /\ FieldDict(force) = {}
    THEN /\ dirty' = {}
         /\ stmts' = <<>>
         /\ iop' = IOp("save_nothing", "none", force, 0)
         /\ UNCHANGED data
    ELSE IF ~PkValueIsNone /\ ~force
    THEN /\ stmts' = <<[kind |-> "UPDATE",
                        cols |-> FieldDict(force) \ PkNames,
                        where |-> [f \in PkNames |-> data[f]]]>>
         /\ dirty' = {}
         /\ iop' = IOp("save", "none", force, 0)
         /\ UNCHANGED data
    ELSE IF ~auto_increment
    THEN /\ stmts' = <<[kind |-> "INSERT", cols |-> FieldDict(force),
                        where |-> <<>>]>>
         /\ dirty' = {}
         /\ iop' = IOp("save", "none", force, 0)
         /\ UNCHANGED data
    ELSE /\ stmts' = <<[kind |-> "INSERT", cols |-> FieldDict(force),
                        where |-> <<>>]>>
         /\ data' = [data EXCEPT !["id"] = rid]
         /\ dirty' = {}
         /\ iop' = IOp("save", "none", force, rid)

DoSave ==
    \E force \in BOOLEAN, rid \in 1..MaxVal :
        /\ (data["id"] # 0 /\ "id" \in FieldDict(force)) => rid = data["id"]
        /\ save(force, rid)
        /\ UNCHANGED <<pkkind, only_save_dirty, rel>>
        /\ KeepInst

\* Model(**kwargs) of a model without field defaults: every keyword goes
\* through its accessor, so a plain field given is dirty.
InitModel ==
    /\ JustInst
    /\ pkkind \in PkKinds
    /\ only_save_dirty \in BOOLEAN
    /\ data = [f \in Fields |-> 0]
    /\ dirty = {}
    /\ rel = [cached |-> FALSE, pk |-> 0]
    /\ stmts = <<>>
    /\ iop = [op |-> "init", field |-> "none", force |-> FALSE, rid |-> 0,
              pk0 |-> <<>>]

NextModel ==
    \/ DoSetField
    \/ DoSetForeignKey
    \/ DoSetObjectId
    \/ DoSave

SpecModel == InitModel /\ [][NextModel]_vars

\* C11: after a value is assigned to a field attribute of an instance, by
\* any accessor (a plain field, a foreign key given an instance or a raw id,
\* the object-id attribute of a foreign key), the field's name is in the
\* instance's dirty set.
C11_AssignedIsDirty ==
    iop.op \in {"set", "set_rel", "set_raw", "set_id"} => iop.field \in dirty

\* The key was absent when save() was called: every field of it was None.
PkAbsent0 == \A f \in DOMAIN iop.pk0 : iop.pk0[f] = 0

\* C12: save() issues one INSERT when the key was absent (for a composite
\* key: every part unset) or force_insert is set, and otherwise one UPDATE
\* restricted to the key the instance had; after an INSERT with an
\* auto-increment key the key is the id the driver reported; after save()
\* the dirty set is empty.
C12_SaveInsertOrUpdate ==
    iop.op = "save" =>
        /\ Len(stmts) = 1
        /\ stmts[1].kind = (IF PkAbsent0 \/ iop.force THEN "INSERT"
                            ELSE "UPDATE")
        /\ stmts[1].kind = "UPDATE" => stmts[1].where = iop.pk0
        /\ (stmts[1].kind = "INSERT" /\ auto_increment) => data["id"] = iop.rid
        /\ dirty = {}

\* =========================================================================
\* prefetch()
\* =========================================================================
MaxPk == 2          \* keys of the root model are 1..MaxPk
MaxChildren == 2    \* rows of the child query

Pks == 1..MaxPk

\* Sequences without repetition over S: the rows of a query over a model,
\* whose primary key is unique.
RECURSIVE Orders(_)
Orders(S) ==
    {<<>>} \cup UNION {{<<x>> \o o : o \in Orders(S \ {x})} : x \in S}

SeqsUpTo(S, n) == UNION {[1..k -> S] : k \in 0..n}

Range(s) == {s[i] : i \in DOMAIN s}

\* prefetch_add_subquery: the child query gets
\* WHERE fk IN (SELECT pk FROM root query); its rows, as indexes into the
\* rows of the query as given.
RECURSIVE FixedChild(_)
FixedChild(n) ==
    IF n = 0 THEN <<>>
    ELSE IF children[n] \in Range(roots) THEN Append(FixedChild(n - 1), n)
         ELSE FixedChild(n - 1)

\* What the is_backref branch of store_instance does: the key holds the
\* one instance stored last.
store_instance_backref(id_map, c) ==
    IF children[c] \in DOMAIN id_map
    THEN [id_map EXCEPT ![children[c]] = <<c>>]
    ELSE id_map @@ (children[c] :> <<c>>)

\* PrefetchQuery.store_instance, is_backref False:
\* id_map.setdefault(key, []); id_map[key].append(instance)
store_instance(id_map, c) ==
    IF children[c] \in DOMAIN id_map
    THEN [id_map EXCEPT ![children[c]] = Append(@, c)]
    ELSE id_map @@ (children[c] :> <<c>>)

\* for instance in pq.query: pq.store_instance(instance, id_map)
RECURSIVE StoreAll(_, _)
StoreAll(cs, n) ==
    IF n = 0 THEN <<>>
    ELSE \* The map after the first n - 1 rows, then row n.
         Only({store_instance(m, cs[n]) : m \in {StoreAll(cs, n - 1)}})

\* PrefetchQuery.populate_instance, is_backref False, on the root instance
\* with key r: st holds the attributes set so far.
populate_instance(st, r, id_map) ==
    LET rel_instances == IF r \in DOMAIN id_map THEN id_map[r] ELSE <<>>
    IN  [notes |-> [st.notes EXCEPT ![r] = [set |-> TRUE,
                                            list |-> rel_instances]],
         parent |-> [c \in DOMAIN st.parent |->
                        IF c \in Range(rel_instances) THEN r
                        ELSE st.parent[c]]]

\* for instance in pq.query: rel.populate_instance(instance, deps[rel.model])
RECURSIVE PopulateAll(_, _)
PopulateAll(id_map, n) ==
    IF n = 0 THEN [notes |-> notes, parent |-> parent]
    ELSE Only({populate_instance(st, roots[n], id_map) :
               st \in {PopulateAll(id_map, n - 1)}})

\* BaseQuery.execute: the query runs when it holds no cursor wrapper yet.
Executed(q) ==
    IF wrapper[q] THEN executed ELSE [executed EXCEPT ![q] = @ + 1]

\* prefetch(sq, subquery): the child query is iterated first, then the
\* root query; the root query is what it returns.
DoPrefetch ==
    /\ pfpc = "built"
    /\ \E cs \in {FixedChild(Len(children))} :
       \E id_map \in {StoreAll(cs, Len(cs))} :
       \E st \in {PopulateAll(id_map, Len(roots))} :
           /\ notes' = st.notes
           /\ parent' = st.parent
    /\ executed' = [q \in {"root", "child"} |-> Executed(q)[q]]
    /\ wrapper' = [q \in {"root", "child"} |-> TRUE]
    /\ pfpc' = "returned"
    /\ UNCHANGED <<roots, children, got>>
    /\ KeepPf

\* for row in prefetch(...): ModelSelect.__iter__ of the root query
DoIterate ==
    /\ pfpc \in {"returned", "iterated"}
    /\ executed' = Executed("root")
    /\ wrapper' = [wrapper EXCEPT !["root"] = TRUE]
    /\ got' = roots
    /\ pfpc' = "iterated"
    /\ UNCHANGED <<roots, children, notes, parent>>
    /\ KeepPf

\* The two queries as built, with the rows they will give.
InitPrefetch ==
    /\ JustPf
    /\ roots \in Orders(Pks)
    /\ children \in SeqsUpTo(0..MaxPk, MaxChildren)
    /\ pfpc = "built"
    /\ notes = [r \in Pks |-> [set |-> FALSE, list |-> <<>>]]
    /\ parent = [c \in DOMAIN children |-> 0]
    /\ executed = [q \in {"root", "child"} |-> 0]
    /\ wrapper = [q \in {"root", "child"} |-> FALSE]
    /\ got = <<>>

NextPrefetch ==
    \/ DoPrefetch
    \/ DoIterate

SpecPrefetch == InitPrefetch /\ [][NextPrefetch]_vars

\* The child rows whose foreign key is r, in the order of the child query.
RECURSIVE ChildrenOf(_, _)
ChildrenOf(r, n) ==
    IF n = 0 THEN <<>>
    ELSE IF children[n] = r THEN Append(ChildrenOf(r, n - 1), n)
         ELSE ChildrenOf(r, n - 1)

column_keys == <<"src", "dest", "dest">>
columns == <<"id", "id", "text">>

\* constructor(__no_default__=True): Model.__init__ pops the keyword and
\* starts with empty __data__ and _dirty; dict keeps it as an item.
Construct(c) ==
    IF c = "model"
    THEN [model |-> TRUE, data |-> [x \in {} |-> 0], dirty |-> {},
          attached |-> FALSE]
    ELSE [model |-> FALSE, data |-> ("__no_default__" :> 1), dirty |-> {},
          attached |-> FALSE]

\* instance[column] = value for a dict; setattr(instance, column, value),
\* which is FieldAccessor.__set__, for a model.
SetColumn(obj, column, value) ==
    [obj EXCEPT !.data = (column :> value) @@ @,
                !.dirty = IF obj.model THEN @ \cup {column} ELSE @]

\* process_row, the loop over the columns of the row
RECURSIVE SetColumns(_, _)
SetColumns(objs, n) ==
    IF n = 0 THEN objs
    ELSE Only({[o EXCEPT ![column_keys[n]] =
                    SetColumn(@, columns[n], row[n])] :
               o \in {SetColumns(objs, n - 1)}})

\* process_row: the keys of the objects a non-null value was read for
set_keys == {column_keys[i] : i \in {j \in DOMAIN row : row[j] # 0}}

\* process_row, the loop over src_to_dest, here the one edge
\* (src, attr, dest, constructor is dict). The source is a model instance:
\* instance[attr] = ... raises TypeError on it. setattr on a foreign key
\* field is ForeignKeyAccessor.__set__, which also stores the key of the
\* joined instance.
Attach(objs) ==
    IF "dest" \notin set_keys THEN [objs |-> objs, raised |-> "none"]
    ELSE IF constructor = "dict"
    THEN [objs |-> objs, raised |-> "TypeError"]
    ELSE [objs |-> [objs EXCEPT
                      !["src"].attached = TRUE,
                      !["src"].data =
                          IF attr = "fk"
                          THEN ("dest" :> objs["dest"].data["id"]) @@ @
                          ELSE @],
          raised |-> "none"]

\* process_row, the last loop: instance._dirty.clear() for every object
\* built; a dict has no _dirty.
ClearDirty(objs) ==
    IF \E k \in DOMAIN objs : ~objs[k].model
    THEN [objs |-> [k \in DOMAIN objs |->
                      IF k = "src" THEN [objs[k] EXCEPT !.dirty = {}]
                      ELSE objs[k]],
          raised |-> "AttributeError"]
    ELSE [objs |-> [k \in DOMAIN objs |-> [objs[k] EXCEPT !.dirty = {}]],
          raised |-> "none"]

\* ModelCursorWrapper.process_row(row)
DoProcessRow ==
    /\ rpc = "fetched"
    /\ \E o0 \in {[src |-> Construct("model"),
                   dest |-> Construct(constructor)]} :
       \E o1 \in {SetColumns(o0, Len(row))} :
       \E a \in {Attach(o1)} :
           IF a.raised # "none"
           THEN /\ objects' = a.objs
                /\ rowerr' = a.raised
           ELSE \E c \in {ClearDirty(a.objs)} :
                    /\ objects' = c.objs
                    /\ rowerr' = c.raised
    /\ rpc' = "done"
    /\ UNCHANGED <<constructor, attr, row>>
    /\ KeepRow

\* The next row of the cursor; the key of the source is never NULL.
DoFetchRow ==
    /\ rpc = "done"
    /\ \E r \in [1..3 -> Values] :
           /\ r[1] # 0
           /\ row' = r
    /\ rpc' = "fetched"
    /\ UNCHANGED <<constructor, attr, objects, rowerr>>
    /\ KeepRow

InitRow ==
    /\ JustRow
    /\ constructor \in {"model", "dict"}
    /\ attr \in IF constructor = "model" THEN {"fk", "plain"} ELSE {"plain"}
    /\ row \in {r \in [1..3 -> Values] : r[1] # 0}
    /\ objects = <<>>
    /\ rowerr = "none"
    /\ rpc = "fetched"

NextRow ==
    \/ DoProcessRow
    \/ DoFetchRow

SpecRow == InitRow /\ [][NextRow]_vars

\* C14: for the row processed and the join edge (src, attr, dest) the
\* object built for dest, a model instance or a dict, is attached to the
\* object built for src if and only if a column projected for dest is
\* non-null in the row; the row is processed without error for model and
\* dict destinations alike, the objects hold the projected columns only,
\* and every model instance built has an empty dirty set.
C14_JoinMaterialize ==
    rpc = "done" =>
        /\ rowerr = "none"
        /\ objects["src"].attached <=> (row[2] # 0 \/ row[3] # 0)
        /\ DOMAIN objects["dest"].data = {"id", "text"}
        /\ \A k \in DOMAIN objects : objects[k].dirty = {}

\* =========================================================================
\* Model.dependencies and Model.delete_instance
\* =========================================================================
MaxModels == 4      \* model classes 1..MaxModels; the instance is of model 1
MaxFks == 4         \* foreign keys in the schema

Models == 1..MaxModels

\* The foreign key number i of the possible ones: declared on `model`,
\* referencing `rel_model`, nullable or not.
ForeignKey(i) ==
    [model |-> ((i - 1) \div (2 * MaxModels)) + 1,
     rel_model |-> (((i - 1) \div 2) % MaxModels) + 1,
     null |-> (i - 1) % 2 = 1]

\* The schemas with at most k foreign keys numbered lo or more, each a
\* sequence in declaration order: the keys of one model together.
RECURSIVE Schemas(_, _)
Schemas(lo, k) ==
    IF k = 0 THEN {<<>>}
    ELSE {<<>>} \cup UNION {{<<ForeignKey(i)>> \o s : s \in Schemas(i + 1, k - 1)} :
                            i \in lo..(2 * MaxModels * MaxModels)}

\* klass._meta.backrefs.items(), in the order the keys were added: the
\* foreign keys that reference klass.
RECURSIVE backrefs_items(_, _)
backrefs_items(klass, n) ==
    IF n = 0 THEN <<>>
    ELSE IF fks[n].rel_model = klass
         THEN Append(backrefs_items(klass, n - 1), n)
         ELSE backrefs_items(klass, n - 1)

\* The models pushed for the foreign keys bs: those of the keys that are
\* not nullable, all of them with search_nullable.
RECURSIVE Pushed(_, _)
Pushed(bs, n) ==
    IF n = 0 THEN <<>>
    ELSE IF ~fks[bs[n]].null \/ delete_nullable
         THEN Append(Pushed(bs, n - 1), fks[bs[n]].model)
         ELSE Pushed(bs, n - 1)

Reversed(s) == [i \in 1..Len(s) |-> s[Len(s) + 1 - i]]

\* delete_instance(recursive=True, delete_nullable): dependencies() starts
\* with the class of the instance on the stack.
DoDeleteInstance ==
    /\ dpc = "built"
    /\ \E dn \in BOOLEAN : delete_nullable' = dn
    /\ stack' = <<1>>
    /\ seen' = {}
    /\ deps' = <<>>
    /\ dpc' = "walk"
    /\ UNCHANGED <<fks, todo, dstmts>>
    /\ KeepDel

\* dependencies(): one turn of `while stack`
DoWalk ==
    /\ dpc = "walk"
    /\ stack # <<>>
    /\ \E klass \in {stack[Len(stack)]}, rest \in {SubSeq(stack, 1, Len(stack) - 1)} :
         IF klass \in seen
         THEN /\ stack' = rest
              /\ UNCHANGED <<seen, deps>>
         ELSE \E bs \in {backrefs_items(klass, Len(fks))} :
                /\ seen' = seen \cup {klass}
                /\ stack' = rest \o Pushed(bs, Len(bs))
                /\ deps' = deps \o bs
    /\ UNCHANGED <<fks, delete_nullable, todo, dstmts, dpc>>
    /\ KeepDel

\* dependencies() is exhausted: reversed(list(dependencies))
DoWalkEnd ==
    /\ dpc = "walk"
    /\ stack = <<>>
    /\ todo' = Reversed(deps)
    /\ dpc' = "issue"
    /\ UNCHANGED <<fks, delete_nullable, stack, seen, deps, dstmts>>
    /\ KeepDel

\* delete_instance: the statement for the next dependency
DoIssue ==
    /\ dpc = "issue"
    /\ todo # <<>>
    /\ \E fk \in {fks[todo[1]]} :
         dstmts' = Append(dstmts,
                     [kind |-> IF fk.null /\ ~delete_nullable THEN "UPDATE"
                               ELSE "DELETE",
                      model |-> fk.model, fk |-> todo[1]])
    /\ todo' = Tail(todo)
    /\ UNCHANGED <<fks, delete_nullable, stack, seen, deps, dpc>>
    /\ KeepDel

\* delete_instance: self.delete().where(self._pk_expr()).execute()
DoDeleteSelf ==
    /\ dpc = "issue"
    /\ todo = <<>>
    /\ dstmts' = Append(dstmts, [kind |-> "DELETE", model |-> 1, fk |-> 0])
    /\ dpc' = "done"
    /\ UNCHANGED <<fks, delete_nullable, stack, seen, deps, todo>>
    /\ KeepDel

\* A schema and an instance of its model 1.
InitDelete ==
    /\ JustDel
    /\ fks \in Schemas(1, MaxFks)
    /\ delete_nullable = FALSE
    /\ stack = <<>>
    /\ seen = {}
    /\ deps = <<>>
    /\ todo = <<>>
    /\ dstmts = <<>>
    /\ dpc = "built"

NextDelete ==
    \/ DoDeleteInstance
    \/ DoWalk
    \/ DoWalkEnd
    \/ DoIssue
    \/ DoDeleteSelf

SpecDelete == InitDelete /\ [][NextDelete]_vars

\* The backref graph is acyclic: the models can be ranked so that every
\* foreign key references a model of lower rank.
Acyclic ==
    \E rank \in [Models -> Models] :
        \A i \in DOMAIN fks : rank[fks[i].rel_model] < rank[fks[i].model]

\* C15: delete_instance(recursive=True) on a schema with an acyclic backref
\* graph issues the statement on a model D that references a model X (the
\* DELETE, or the UPDATE for a nullable foreign key without delete_nullable)
\* before every DELETE on X, and the DELETE of the instance's own row last.
C15_DependencyOrder ==
    (dpc = "done" /\ Acyclic) =>
        /\ dstmts[Len(dstmts)] = [kind |-> "DELETE", model |-> 1, fk |-> 0]
        /\ \A i, j \in 1..(Len(dstmts) - 1) :
              (/\ fks[dstmts[i].fk].rel_model = dstmts[j].model
               /\ dstmts[j].kind = "DELETE") => i < j

\* =========================================================================
\* CursorWrapper and ResultIterator
\* =========================================================================
MaxCursorRows == 3  \* rows of the driver cursor
MaxIters == 2       \* ResultIterators alive at once

\* CursorWrapper.__init__(cursor), with a cursor that has given no row yet.
\* closes and fetches count the calls of cursor.close() and
\* cursor.fetchone(); late is set by a fetchone() on the closed cursor.
NewWrapper ==
    [count |-> 0, row_cache |-> <<>>, populated |-> FALSE,
     pos |-> 0, closes |-> 0, fetches |-> 0, late |-> FALSE]

\* cursor.fetchone(): the next row, 0 for None
FetchOne(w) == IF w.pos < total THEN w.pos + 1 ELSE 0

\* iterate() without `self.populated = True`
iterate_unmarked(w) ==
    LET fetched == FetchOne(w)
        f == [w EXCEPT !.fetches = @ + 1,
                       !.late = @ \/ w.closes > 0]
    IN  IF fetched = 0
        THEN [w |-> [f EXCEPT !.closes = @ + 1], stop |-> TRUE]
        ELSE [w |-> [f EXCEPT !.pos = fetched, !.count = @ + 1,
                              !.row_cache = Append(@, fetched)],
              stop |-> FALSE]

\* CursorWrapper.iterate(cache=True); stop: it raised StopIteration
iterate(w) ==
    LET fetched == FetchOne(w)
        f == [w EXCEPT !.fetches = @ + 1,
                       !.late = @ \/ w.closes > 0]
    IN  IF fetched = 0
        THEN [w |-> [f EXCEPT !.populated = TRUE, !.closes = @ + 1],
              stop |-> TRUE]
        ELSE [w |-> [f EXCEPT !.pos = fetched, !.count = @ + 1,
                              !.row_cache = Append(@, fetched)],
              stop |-> FALSE]

\* row_cache[self.index] in ResultIterator.next(): the object, or the
\* IndexError of a position the cache does not hold.
Cached(w, index) ==
    IF index < Len(w.row_cache)
    THEN [w |-> w, index |-> index + 1, obj |-> w.row_cache[index + 1],
          stop |-> FALSE, err |-> "none"]
    ELSE [w |-> w, index |-> index, obj |-> 0, stop |-> FALSE,
          err |-> "IndexError"]

\* StopIteration raised by ResultIterator.next()
Stopped(w, index) ==
    [w |-> w, index |-> index, obj |-> 0, stop |-> TRUE, err |-> "none"]

\* next() that fetches a row whenever the wrapper is not populated
next_uncached(w, index) ==
    IF ~w.populated
    THEN Only({IF r.stop THEN Stopped(r.w, index)
               ELSE [w |-> r.w, index |-> index + 1,
                     obj |-> r.w.row_cache[Len(r.w.row_cache)],
                     stop |-> FALSE, err |-> "none"] :
               r \in {iterate(w)}})
    ELSE IF index < w.count THEN Cached(w, index)
    ELSE Stopped(w, index)

\* ResultIterator.next() of an iterator at index: the wrapper after it, the
\* index after it and the object returned, 0 with StopIteration
next(w, index) ==
    IF index < w.count THEN Cached(w, index)
    ELSE IF ~w.populated
    THEN Only({IF r.stop THEN Stopped(r.w, index) ELSE Cached(r.w, index) :
               r \in {iterate(w)}})
    ELSE Stopped(w, index)

\* CursorWrapper.fill_cache(n); n = 0 stands for every row (n or Inf).
\* The loop ends when the wrapper is populated, when n rows are cached, or
\* with the StopIteration of next(); any other exception of next() leaves
\* fill_cache.
RECURSIVE fill_cache(_, _)
fill_cache(w, n) ==
    IF w.populated \/ ~(n = 0 \/ n > w.count)
    THEN [w |-> w, err |-> "none"]
    ELSE Only({IF r.stop \/ r.err # "none" THEN [w |-> r.w, err |-> r.err]
               ELSE fill_cache(r.w, n) :
               r \in {next(w, w.count)}})

\* list[item] of Python for an integer item
PyIndex(s, item) ==
    IF item >= 0 /\ item < Len(s) THEN [err |-> "none", res |-> <<s[item + 1]>>]
    ELSE IF item < 0 /\ -item <= Len(s)
    THEN [err |-> "none", res |-> <<s[Len(s) + item + 1]>>]
    ELSE [err |-> "IndexError", res |-> <<>>]

\* list[start:stop] of Python for start >= 0 and stop >= 0 or None
PySlice(s, start, stop, nostop) ==
    LET hi == IF nostop \/ stop > Len(s) THEN Len(s) ELSE stop
    IN  IF start >= hi THEN <<>> ELSE SubSeq(s, start + 1, hi)

\* What is recorded of an operation on the wrapper.
COp(op, a, b, nostop, err, res) ==
    [op |-> op, a |-> a, b |-> b, nostop |-> nostop, err |-> err,
     res |-> res, count0 |-> cw.count, populated0 |-> cw.populated,
     fetches0 |-> cw.fetches]

\* wrapper[item] for an integer item: CursorWrapper.__getitem__
DoGetItem ==
    \E item \in (-1)..MaxCursorRows :
    \E f \in {fill_cache(cw, IF item > 0 THEN item ELSE 0)} :
    \E r \in {IF f.err # "none" THEN [err |-> f.err, res |-> <<>>]
              ELSE PyIndex(f.w.row_cache, item)} :
        /\ cw' = f.w
        /\ cop' = COp("getitem", item, 0, FALSE, r.err, r.res)
        /\ UNCHANGED <<total, iters>>
        /\ KeepCw

\* wrapper[start:stop] and wrapper[start:]: CursorWrapper.__getitem__
DoGetSlice ==
    \E start \in 0..MaxCursorRows, stop \in 0..MaxCursorRows,
       nostop \in BOOLEAN :
    \E f \in {fill_cache(cw, IF nostop THEN 0 ELSE stop)} :
        /\ nostop => stop = 0
        /\ cw' = f.w
        /\ cop' = COp("getslice", start, stop, nostop, f.err,
                      IF f.err # "none" THEN <<>>
                      ELSE PySlice(f.w.row_cache, start, stop, nostop))
        /\ UNCHANGED <<total, iters>>
        /\ KeepCw

\* len(wrapper): CursorWrapper.__len__
DoLen ==
    \E f \in {fill_cache(cw, 0)} :
        /\ cw' = f.w
        /\ cop' = COp("len", 0, 0, FALSE, f.err,
                      IF f.err # "none" THEN <<>> ELSE <<f.w.count>>)
        /\ UNCHANGED <<total, iters>>
        /\ KeepCw

\* wrapper.fill_cache(n)
DoFillCache ==
    \E n \in 0..MaxCursorRows :
    \E f \in {fill_cache(cw, n)} :
        /\ cw' = f.w
        /\ cop' = COp("fill_cache", n, 0, FALSE, f.err, <<>>)
        /\ UNCHANGED <<total, iters>>
        /\ KeepCw

\* iter(wrapper): CursorWrapper.__iter__ gives an iterator of the row
\* cache when populated, a ResultIterator at index 0 otherwise.
DoIter ==
    \E k \in 1..MaxIters :
        /\ iters' = [iters EXCEPT ![k] =
                        [kind |-> IF cw.populated THEN "list" ELSE "result",
                         index |-> 0, out |-> <<>>]]
        /\ cop' = COp("iter", k, 0, FALSE, "none", <<>>)
        /\ UNCHANGED <<total, cw>>
        /\ KeepCw

\* next(it) on an iterator made by iter(wrapper)
DoNext ==
    \E k \in 1..MaxIters :
        /\ iters[k].kind # "none"
        /\ \E r \in {IF iters[k].kind = "result"
                     THEN next(cw, iters[k].index)
                     ELSE IF iters[k].index < Len(cw.row_cache)
                     THEN Cached(cw, iters[k].index)
                     ELSE Stopped(cw, iters[k].index)} :
              /\ cw' = r.w
              /\ iters' = [iters EXCEPT ![k].index = r.index,
                                        ![k].out = IF r.stop \/ r.err # "none"
                                                   THEN @ ELSE Append(@, r.obj)]
              /\ cop' = COp("next", k, 0, FALSE,
                            IF r.stop THEN "StopIteration" ELSE r.err,
                            IF r.stop \/ r.err # "none" THEN <<>>
                            ELSE <<r.obj>>)
        /\ UNCHANGED total
        /\ KeepCw

\* A wrapper as constructed over a cursor with `total` rows.
InitCursor ==
    /\ JustCw
    /\ total \in 0..MaxCursorRows
    /\ cw = NewWrapper
    /\ iters = [k \in 1..MaxIters |->
                  [kind |-> "none", index |-> 0, out |-> <<>>]]
    /\ cop = [op |-> "init", a |-> 0, b |-> 0, nostop |-> FALSE,
              err |-> "none", res |-> <<>>, count0 |-> 0,
              populated0 |-> FALSE, fetches0 |-> 0]

NextCursor ==
    \/ DoGetItem
    \/ DoGetSlice
    \/ DoLen
    \/ DoFillCache
    \/ DoIter
    \/ DoNext

SpecCursor == InitCursor /\ [][NextCursor]_vars

\* Rows a..b of the cursor, in cursor order.
CursorRows(a, b) == [i \in 1..(IF b >= a THEN b - a + 1 ELSE 0) |-> a + i - 1]

Min(x, y) == IF x < y THEN x ELSE y

\* C16: wrapper[i] with 0 <= i < T returns row i of the cursor, whatever
\* number of rows was cached before; wrapper[a:b] returns the rows a..b-1 of
\* the cursor; after the call the cache is a prefix of the cursor's rows in
\* cursor order.
C16_IndexThroughCache ==
    /\ (cop.op = "getitem" /\ cop.a >= 0 /\ cop.a < total) =>
           cop.err = "none" /\ cop.res = <<cop.a + 1>>
    /\ cop.op = "getslice" =>
           cop.res = CursorRows(cop.a + 1,
                                IF cop.nostop THEN total ELSE Min(cop.b, total))
    /\ cw.row_cache = CursorRows(1, Len(cw.row_cache))

\* C17: the wrapper closes the driver cursor exactly once, in the step in
\* which a fetch returns no more rows, and becomes populated in that step;
\* from then on __iter__, len(), fill_cache() and indexing call neither
\* fetchone() nor close() again.
C17_CloseOnceThenCache ==
    [][/\ cw'.closes = IF cw'.populated THEN 1 ELSE 0
       /\ cw'.closes # cw.closes =>
              cw'.fetches > cw.fetches /\ cw'.pos = total /\ ~cw.populated
       /\ cw.populated => (cw'.fetches = cw.fetches /\ cw'.closes = cw.closes)
       /\ ~cw'.late]_vars

\* A populated wrapper served an index, a length or an iterator from its
\* cache.
C17_Witness ==
    /\ cop.populated0
    /\ cop.op \in {"getitem", "len", "next", "fill_cache"}
    /\ cw.closes = 1
    /\ total > 0

\* =========================================================================
\* Metadata: fields and the reference graph
\* =========================================================================
MaxFieldObjs == 3   \* Field objects made in a run
NMetaModels == 2    \* model classes

MetaModels == 1..NMetaModels
FieldNames == {"f", "g"}
FieldObjs == 1..MaxFieldObjs

\* The Metadata of all models, as one record; err is the exception raised.
Meta ==
    [fields |-> fields, refs |-> refs, model_refs |-> model_refs,
     backrefs |-> backrefs, model_backrefs |-> model_backrefs,
     err |-> "none"]

\* Metadata.add_ref(field) of model m, for a field with rel_model rel_model
add_ref(mt, m, field, rel_model) ==
    [mt EXCEPT !.refs[m] = @ \cup {field},
               !.model_refs[m][rel_model] = @ \cup {field},
               !.backrefs[rel_model] = @ \cup {field},
               !.model_backrefs[rel_model][m] = @ \cup {field}]

\* Metadata.remove_ref(field) of model m: `del self.refs[field]`, then
\* self.model_ref, an attribute Metadata does not have.
remove_ref(mt, m, field) ==
    [mt EXCEPT !.refs[m] = @ \ {field}, !.err = "AttributeError"]

\* Metadata.remove_field(field_name) of model m
remove_field(mt, m, name) ==
    IF mt.fields[m][name] = 0 THEN mt
    ELSE Only({IF field_objs[original].rel_model # 0
               THEN remove_ref([mt EXCEPT !.fields[m][name] = 0], m, original)
               ELSE [mt EXCEPT !.fields[m][name] = 0] :
               original \in {mt.fields[m][name]}})

\* Metadata.add_field(field_name, field) of model m
add_field(mt, m, name, field, rel_model) ==
    Only({IF removed.err # "none" THEN removed
          ELSE IF rel_model # 0
          THEN add_ref([removed EXCEPT !.fields[m][name] = field], m, field,
                       rel_model)
          ELSE [removed EXCEPT !.fields[m][name] = field] :
          removed \in {remove_field(mt, m, name)}})

\* The Metadata after an operation.
SetMeta(mt) ==
    /\ fields' = mt.fields
    /\ refs' = mt.refs
    /\ model_refs' = mt.model_refs
    /\ backrefs' = mt.backrefs
    /\ model_backrefs' = mt.model_backrefs

\* model._meta.add_field(name, field) with a new Field object: a foreign
\* key to rel_model, or a plain field (rel_model = 0). field.bind() runs after the
\* removal of a field of the same name.
DoAddField ==
    \E m \in MetaModels, name \in FieldNames, rel_model \in 0..NMetaModels :
    \E field \in {f \in FieldObjs : field_objs[f].made = FALSE /\
                     \A g \in FieldObjs : g < f => field_objs[g].made} :
    \E mt \in {add_field(Meta, m, name, field, rel_model)} :
        /\ SetMeta(mt)
        /\ field_objs' = [field_objs EXCEPT ![field] =
              [made |-> TRUE, rel_model |-> rel_model,
               model |-> IF mt.err = "none" THEN m ELSE 0]]
        /\ mop' = [op |-> IF fields[m][name] = 0 THEN "add" ELSE "replace",
                   model |-> m, field |-> field, old |-> fields[m][name],
                   err |-> mt.err]
        /\ KeepMeta

\* model._meta.remove_field(name)
DoRemoveField ==
    \E m \in MetaModels, name \in FieldNames :
    \E mt \in {remove_field(Meta, m, name)} :
        /\ fields[m][name] # 0
        /\ SetMeta(mt)
        /\ mop' = [op |-> "remove", model |-> m, field |-> 0,
                   old |-> fields[m][name], err |-> mt.err]
        /\ UNCHANGED field_objs
        /\ KeepMeta

\* Model classes without fields.
InitMeta ==
    /\ JustMeta
    /\ field_objs = [f \in FieldObjs |->
                        [made |-> FALSE, rel_model |-> 0, model |-> 0]]
    /\ fields = [m \in MetaModels |-> [n \in FieldNames |-> 0]]
    /\ refs = [m \in MetaModels |-> {}]
    /\ model_refs = [m \in MetaModels |-> [r \in MetaModels |-> {}]]
    /\ backrefs = [m \in MetaModels |-> {}]
    /\ model_backrefs = [m \in MetaModels |-> [r \in MetaModels |-> {}]]
    /\ mop = [op |-> "init", model |-> 0, field |-> 0, old |-> 0,
              err |-> "none"]

NextMeta ==
    \/ DoAddField
    \/ DoRemoveField

SpecMeta == InitMeta /\ [][NextMeta]_vars

\* The foreign key F from a to b is in all four maps, or in none of them.
InAllFour(F, a, b) ==
    /\ F \in refs[a]
    /\ F \in model_refs[a][b]
    /\ F \in backrefs[b]
    /\ F \in model_backrefs[b][a]

InNoneOfFour(F, a, b) ==
    /\ F \notin refs[a]
    /\ F \notin model_refs[a][b]
    /\ F \notin backrefs[b]
    /\ F \notin model_backrefs[b][a]

\* C18: a foreign key F added to the Metadata of A with rel_model B is in
\* A.refs, A.model_refs[B], B.backrefs and B.model_backrefs[A]; removing it,
\* by remove_field or by add_field of the same name, completes without
\* error and takes it out of all four; in every state F is in A.refs
\* exactly when it is in B.backrefs.
C18_BothSides ==
    /\ mop.err = "none"
    /\ (mop.op \in {"add", "replace"} /\ field_objs[mop.field].rel_model # 0)
           => InAllFour(mop.field, mop.model, field_objs[mop.field].rel_model)
    /\ (mop.op \in {"remove", "replace"} /\ field_objs[mop.old].rel_model # 0)
           => InNoneOfFour(mop.old, mop.model, field_objs[mop.old].rel_model)
    /\ \A F \in FieldObjs :
           (field_objs[F].model # 0 /\ field_objs[F].rel_model # 0) =>
               (F \in refs[field_objs[F].model]
                    <=> F \in backrefs[field_objs[F].rel_model])

\* =========================================================================
\* Query builders: Node.copy, Select, ModelSelect
\* =========================================================================
MaxQueries == 3     \* query objects made in a run
MaxSources == 2     \* tables and models to select from and join
MaxJoined == 2      \* joins in one FROM item

QueryIds == 1..MaxQueries
Sources == 1..MaxSources

\* A query object not made yet.
NoQuery ==
    [made |-> FALSE, model |-> FALSE, from_list |-> 0, joins |-> 0,
     where |-> <<>>, limit |-> 0]

\* The next query object, while there is one.
NewQueryId ==
    {q \in QueryIds : /\ ~queries[q].made
                      /\ \A p \in QueryIds : p < q => queries[p].made}

\* Node.clone of a query: a new object with a copy of __dict__, so with the
\* same list and dict objects in its attributes.
clone(q) == queries[q]

\* Select.join on the object c: pop the last item of c._from_list and
\* append the Join of it and dest, in the list object itself.
Select_join(c, dest) ==
    [from_lists EXCEPT ![c.from_list] =
        SubSeq(@, 1, Len(@) - 1) \o <<Append(@[Len(@)], dest)>>]

\* ModelSelect.join on the object c, before it calls Select.join:
\* self._joins.setdefault(src, []) and append, in the dict object itself.
ModelSelect_join(c, dest) ==
    [joins EXCEPT ![c.joins] = Append(@, dest)]

\* What a caller can observe of query q: its FROM list, registered joins,
\* WHERE clause, LIMIT and the sql rendered from them.
Sql(q) ==
    <<"SELECT", "FROM", from_lists[queries[q].from_list],
      "WHERE", queries[q].where, "LIMIT", queries[q].limit>>

Observed(q) ==
    [from_list |-> from_lists[queries[q].from_list],
     joins |-> IF queries[q].model THEN joins[queries[q].joins] ELSE <<>>,
     where |-> queries[q].where,
     limit |-> queries[q].limit,
     sql |-> Sql(q)]

\* Select(from_list=(source,)) and Model.select(): a new query with a new
\* list, and for a ModelSelect a new dict.
DoSelect ==
    \E q \in NewQueryId, model \in BOOLEAN, source \in Sources :
        /\ queries' = [queries EXCEPT ![q] =
              [made |-> TRUE, model |-> model, from_list |-> q,
               joins |-> IF model THEN q ELSE 0, where |-> <<>>,
               limit |-> 0]]
        /\ from_lists' = [from_lists EXCEPT ![q] = <<<<source>>>>]
        /\ joins' = [joins EXCEPT ![q] = <<>>]
        /\ qop' = [op |-> "select", on |-> 0, ret |-> q]
        /\ KeepQ

\* q.where(e): the clone's _where is bound to a new expression.
DoWhere ==
    \E on \in QueryIds, q \in NewQueryId, e \in Sources :
        /\ queries[on].made
        /\ Len(queries[on].where) < MaxJoined
        /\ queries' = [queries EXCEPT ![q] =
              [clone(on) EXCEPT !.where = Append(@, e)]]
        /\ qop' = [op |-> "where", on |-> on, ret |-> q]
        /\ UNCHANGED <<from_lists, joins>>
        /\ KeepQ

\* q.limit(n): the clone's _limit is bound to n.
DoLimit ==
    \E on \in QueryIds, q \in NewQueryId, n \in 1..MaxSources :
        /\ queries[on].made
        /\ queries' = [queries EXCEPT ![q] = [clone(on) EXCEPT !.limit = n]]
        /\ qop' = [op |-> "limit", on |-> on, ret |-> q]
        /\ UNCHANGED <<from_lists, joins>>
        /\ KeepQ

\* q.from_(source): the clone's _from_list is bound to a new list.
DoFrom ==
    \E on \in QueryIds, q \in NewQueryId, source \in Sources :
        /\ queries[on].made
        /\ queries' = [queries EXCEPT ![q] =
              [clone(on) EXCEPT !.from_list = q]]
        /\ from_lists' = [from_lists EXCEPT ![q] = <<<<source>>>>]
        /\ qop' = [op |-> "from_", on |-> on, ret |-> q]
        /\ UNCHANGED joins
        /\ KeepQ

\* q.join(dest). Select.join runs on the clone Node.copy made. For a
\* ModelSelect, ModelSelect.join runs on the clone and calls Select.join,
\* which Node.copy runs on a clone of that clone; that second clone is
\* dropped.
DoJoin ==
    \E on \in QueryIds, q \in NewQueryId, dest \in Sources :
        /\ queries[on].made
        /\ \E l \in {from_lists[queries[on].from_list]} :
              l # <<>> /\ Len(l[Len(l)]) <= MaxJoined
        /\ queries' = [queries EXCEPT ![q] = clone(on)]
        /\ from_lists' = Select_join(clone(on), dest)
        /\ joins' = IF queries[on].model
                    THEN ModelSelect_join(clone(on), dest)
                    ELSE joins
        /\ qop' = [op |-> "join", on |-> on, ret |-> q]
        /\ KeepQ

\* q.sql(): rendering writes to a Context made for the call.
DoRender ==
    \E on \in QueryIds :
        /\ queries[on].made
        /\ qop' = [op |-> "sql", on |-> on, ret |-> 0]
        /\ UNCHANGED <<queries, from_lists, joins>>
        /\ KeepQ

InitQuery ==
    /\ JustQ
    /\ queries = [q \in QueryIds |-> NoQuery]
    /\ from_lists = [q \in QueryIds \cup {0} |-> <<>>]
    /\ joins = [q \in QueryIds \cup {0} |-> <<>>]
    /\ qop = [op |-> "init", on |-> 0, ret |-> 0]

NextQuery ==
    \/ DoSelect
    \/ DoWhere
    \/ DoLimit
    \/ DoFrom
    \/ DoJoin
    \/ DoRender

SpecQuery == InitQuery /\ [][NextQuery]_vars

\* C19: a builder method returns a new query and leaves every query that
\* existed before the call observably unchanged: its FROM list, registered
\* joins, WHERE clause and rendered sql are what they were; rendering
\* changes no query either.
C19_CopyOnWrite ==
    [][\A q \in QueryIds : queries[q].made => Observed(q)' = Observed(q)]_vars

\* =========================================================================
\* AliasManager
\* =========================================================================
MaxScopes == 3      \* depth of the scopes pushed
MaxAliases == 4     \* aliases generated in one render

\* The mapping of a scope just made: no source has an alias.
EmptyScope == [s \in Sources |-> 0]

\* The manager as one record.
Manager == [counter |-> counter, current_index |-> current_index,
            mapping |-> mapping]

\* AliasManager.add(source): the alias of the source in the current scope,
\* generated from the counter when it has none there.
add(am, source) ==
    IF am.mapping[am.current_index][source] = 0
    THEN [am |-> [am EXCEPT !.counter = @ + 1,
                            !.mapping[am.current_index][source] =
                                am.counter + 1],
          alias |-> am.counter + 1]
    ELSE [am |-> am, alias |-> am.mapping[am.current_index][source]]

\* The scopes at or below the current one that hold the source.
Holding(am, source) ==
    {idx \in 1..am.current_index : am.mapping[idx][source] # 0}

\* AliasManager.get(source, any_depth)
get(am, source, any_depth) ==
    IF any_depth /\ Holding(am, source) # {}
    THEN [am |-> am,
          alias |-> am.mapping[CHOOSE idx \in Holding(am, source) :
                       \A j \in Holding(am, source) : j <= idx][source]]
    ELSE add(am, source)

\* AliasManager.__getitem__(source): self.get(source)
getitem(am, source) == get(am, source, FALSE)

\* AliasManager.push()
push(am) ==
    [am EXCEPT !.current_index = @ + 1,
               !.mapping = IF am.current_index + 1 > Len(@)
                           THEN Append(@, EmptyScope) ELSE @]

SetManager(am) ==
    /\ counter' = am.counter
    /\ current_index' = am.current_index
    /\ mapping' = am.mapping

\* A reference to a source is rendered: Source.__sql__ and Column.__sql__
\* write ctx.alias_manager[source].
DoReference ==
    \E source \in Sources :
    \E r \in {getitem(Manager, source)} :
        /\ r.am.counter <= MaxAliases
        /\ SetManager(r.am)
        /\ rendered' = rendered \cup {<<source, r.alias>>}
        /\ aop' = [op |-> "getitem", source |-> source, alias |-> r.alias,
                   err |-> "none"]
        /\ KeepAm

\* alias_manager.get(source, any_depth=True), which no __sql__ calls
DoGetAnyDepth ==
    \E source \in Sources :
    \E r \in {get(Manager, source, TRUE)} :
        /\ r.am.counter <= MaxAliases
        /\ SetManager(r.am)
        /\ aop' = [op |-> "get", source |-> source, alias |-> r.alias,
                   err |-> "none"]
        /\ UNCHANGED rendered
        /\ KeepAm

\* ctx.push_alias() entered: the right-hand side of a compound select
DoPushAlias ==
    /\ current_index < MaxScopes
    /\ SetManager(push(Manager))
    /\ aop' = [op |-> "push", source |-> 0, alias |-> 0, err |-> "none"]
    /\ UNCHANGED rendered
    /\ KeepAm

\* AliasManager.pop(): ctx.push_alias() left
DoPopAlias ==
    /\ IF current_index = 1
       THEN /\ aop' = [op |-> "pop", source |-> 0, alias |-> 0,
                       err |-> "ValueError"]
            /\ UNCHANGED current_index
       ELSE /\ aop' = [op |-> "pop", source |-> 0, alias |-> 0,
                       err |-> "none"]
            /\ current_index' = current_index - 1
    /\ UNCHANGED <<counter, mapping, rendered>>
    /\ KeepAm

\* AliasManager.__init__: one scope pushed.
InitAlias ==
    /\ JustAm
    /\ counter = 0
    /\ current_index = 1
    /\ mapping = <<EmptyScope>>
    /\ rendered = {}
    /\ aop = [op |-> "init", source |-> 0, alias |-> 0, err |-> "none"]

NextAlias ==
    \/ DoReference
    \/ DoGetAnyDepth
    \/ DoPushAlias
    \/ DoPopAlias

SpecAlias == InitAlias /\ [][NextAlias]_vars

\* C20: within one render the same source is written with the same alias on
\* every reference, at whatever depth it is referenced (an alias assigned at
\* an enclosing depth is found before a new one is generated), and two
\* distinct sources are never written with the same generated alias.
C20_AliasStability ==
    \A x \in rendered, y \in rendered :
        /\ x[1] = y[1] => x[2] = y[2]
        /\ x[1] # y[1] => x[2] # y[2]


\* ------------------------------------------------------------------ C28
\* The open blocks that pushed themselves on the frame stack: a savepoint
\* does not.
StackedBlocks ==
    {i \in DOMAIN open : open[i].kind \in {"transaction", "manual"}}

\* C28: in every reachable state the depth of the frame stack of the
\* connection state equals the number of transaction and manual
\* blocks entered and not yet exited, also when connect() (called directly
\* or through cursor()) runs inside an open block; exiting a block never
\* pops from an empty stack, so no block exit raises IndexError.
C28_StackMatchesBlocks ==
    /\ transaction_depth(Pre) = Cardinality(StackedBlocks)
    /\ (last.op = "exit" => last.err # "IndexError")


\* =========================================================================
\* Database.connect, close and init when the driver or a hook fails
\* =========================================================================
MaxHandles == 2     \* driver connections open at the same time
MaxStacked == 2     \* frames pushed on the state

Handles == 1..MaxHandles

\* The Database as one record, with the outcome of the running call.
Db == [deferred |-> deferred, cs |-> ce, live |-> live, err |-> "none",
       ret |-> "none"]

\* Database.connect(reuse_if_open). cok: the driver's connect succeeds;
\* iok: _initialize_connection(conn) returns without raising.
Database_connect(d, reuse_if_open, cok, iok) ==
    IF d.deferred THEN [d EXCEPT !.err = "Exception"]
    ELSE IF ~d.cs.closed
    THEN IF reuse_if_open THEN [d EXCEPT !.ret = "False"]
         ELSE [d EXCEPT !.err = "OperationalError"]
    ELSE IF ~cok THEN [d EXCEPT !.cs = reset(@), !.err = "DriverError"]
    ELSE LET c == Least(Handles \ d.live)
             set == [d EXCEPT !.cs = set_connection(reset(@), c),
                              !.live = @ \cup {c}]
         IN  IF iok THEN [set EXCEPT !.ret = "True"]
             ELSE [set EXCEPT !.err = "HookError"]

\* Database.close(). dok: the driver's close succeeds.
Database_close(d, dok) ==
    IF d.deferred THEN [d EXCEPT !.err = "Exception"]
    ELSE IF d.cs.closed THEN [d EXCEPT !.cs = reset(@), !.ret = "False"]
    ELSE IF dok THEN [d EXCEPT !.cs = reset(@), !.live = @ \ {d.cs.conn},
                               !.ret = "True"]
    ELSE [d EXCEPT !.cs = reset(@), !.err = "DriverError"]

\* Database.init(database): an open connection is closed first; the
\* database is deferred when no name is given.
Database_init(d, named, dok) ==
    Only({IF c.err # "none" THEN c
          ELSE [c EXCEPT !.deferred = ~named, !.ret = "none"] :
          c \in {IF ~d.cs.closed THEN Database_close(d, dok) ELSE d}})

\* What is recorded of a call: the state it started from and its outcome.
EOp(op, reuse_if_open, d) ==
    [op |-> op, reuse_if_open |-> reuse_if_open, err |-> d.err,
     ret |-> d.ret, closed0 |-> ce.closed, cs0 |-> ce]

SetDb(d, l) ==
    /\ deferred' = d.deferred
    /\ ce' = d.cs
    /\ live' = d.live
    /\ eop' = l
    /\ KeepCe

\* db.connect() / db.connect(reuse_if_open=True)
DoDbConnect ==
    \E reuse_if_open \in BOOLEAN, cok \in BOOLEAN, iok \in BOOLEAN :
        /\ Handles \ live # {}
        /\ \E d \in {Database_connect(Db, reuse_if_open, cok, iok)} :
              SetDb(d, EOp("connect", reuse_if_open, d))

\* db.close()
DoDbClose ==
    \E dok \in BOOLEAN :
    \E d \in {Database_close(Db, dok)} :
        SetDb(d, EOp("close", FALSE, d))

\* db.init(name) / db.init(None)
DoDbInit ==
    \E named \in BOOLEAN, dok \in BOOLEAN :
    \E d \in {Database_init(Db, named, dok)} :
        SetDb(d, EOp("init", FALSE, d))

\* ConnectionContext.__enter__: connect() when the database is closed.
DoContextEnter ==
    \E cok \in BOOLEAN, iok \in BOOLEAN :
        /\ Handles \ live # {}
        /\ \E d \in {IF ce.closed THEN Database_connect(Db, FALSE, cok, iok)
                      ELSE Db} :
              SetDb(d, EOp("context_enter", FALSE, d))

\* ConnectionContext.__exit__: close()
DoContextExit ==
    \E dok \in BOOLEAN :
    \E d \in {Database_close(Db, dok)} :
        SetDb(d, EOp("context_exit", FALSE, d))

\* db.push_transaction(frame): a block is entered.
DoPushFrame ==
    /\ Len(ce.transactions) < MaxStacked
    /\ \E d \in {[Db EXCEPT !.cs.transactions = Append(@, Len(@) + 1)]} :
          SetDb(d, EOp("push", FALSE, d))

\* A Database as constructed, with a name or deferred.
InitConnErr ==
    /\ JustCe
    /\ deferred \in BOOLEAN
    /\ ce = [closed |-> TRUE, conn |-> 0, transactions |-> <<>>]
    /\ live = {}
    /\ eop = [op |-> "init", reuse_if_open |-> FALSE, err |-> "none",
              ret |-> "none", closed0 |-> TRUE, cs0 |-> ce]

NextConnErr ==
    \/ DoDbConnect
    \/ DoDbClose
    \/ DoDbInit
    \/ DoContextEnter
    \/ DoContextExit
    \/ DoPushFrame

SpecConnErr == InitConnErr /\ [][NextConnErr]_vars

\* C29: when connect() raises (database deferred, connection already open,
\* driver connect failed, connection-initialization hook failed),
\* is_closed() is what it was before the call and a closed state records no
\* connection; when the driver's close fails inside close(), the state is
\* reset to closed with no connection; connect(reuse_if_open=True) on an
\* open connection returns False and leaves the connection and the frame
\* stack as they were.
C29_ConsistentOnErrors ==
    /\ (eop.op = "connect" /\ eop.err # "none")
          => /\ ce.closed = eop.closed0
             /\ (ce.closed => ce.conn = 0)
    /\ (eop.op = "close" /\ eop.err = "DriverError")
          => /\ ce.closed
             /\ ce.conn = 0
             /\ ce.transactions = <<>>
    /\ (eop.op = "connect" /\ eop.reuse_if_open /\ ~eop.closed0)
          => /\ eop.err = "none"
             /\ eop.ret = "False"
             /\ ce = eop.cs0


\* ------------------------------------------------------------------ C27
\* C27: however the next() calls on several caching iterators of one
\* wrapper are interleaved, and whenever each iterator was started, every
\* iterator yields the rows of the cursor in cursor order without skipping
\* or repeating one, has yielded all of them when it stops, and each row is
\* fetched from the driver cursor exactly once.
C27_InterleavedIterators ==
    /\ \A k \in 1..MaxIters :
          /\ iters[k].out = CursorRows(1, Len(iters[k].out))
          /\ iters[k].index = Len(iters[k].out)
    /\ (cop.op = "next" /\ cop.err = "StopIteration")
          => iters[cop.a].out = CursorRows(1, total)
    /\ cop.op = "next" => cop.err \in {"none", "StopIteration"}
    /\ cw.fetches = cw.pos + cw.closes
    /\ cw.closes <= 1

\* Two iterators over the same unpopulated wrapper were advanced in turn,
\* and both have yielded every row.
C27_Witness ==
    /\ total >= 2
    /\ \A k \in 1..MaxIters :
          /\ iters[k].kind = "result"
          /\ iters[k].out = CursorRows(1, total)
    /\ cop.op = "next"
    /\ cop.err = "StopIteration"
    /\ cop.count0 = total


\* ------------------------------------------------------------------ C26
MaxLateFetches == 1 \* fetchone() calls made on the closed cursor

\* CursorWrapper.iterate(cache=False): the row is counted and returned but
\* not appended to the row cache. A fetchone() on the closed cursor raises
\* the driver's error.
iterate_nocache(w) ==
    LET fetched == FetchOne(w)
        f == [w EXCEPT !.fetches = @ + 1,
                       !.late = @ \/ w.closes > 0]
    IN  IF w.closes > 0
        THEN [w |-> f, obj |-> 0, err |-> "DriverError"]
        ELSE IF fetched = 0
        THEN [w |-> [f EXCEPT !.populated = TRUE, !.closes = @ + 1],
              obj |-> 0, err |-> "StopIteration"]
        ELSE [w |-> [f EXCEPT !.pos = fetched, !.count = @ + 1],
              obj |-> fetched, err |-> "none"]

\* next(gen) on the generator made by wrapper.iterator(). The StopIteration
\* of iterate() ends the generator, or leaves it as a RuntimeError where the
\* interpreter forbids a generator to raise StopIteration.
DoIteratorNext ==
    /\ cw.fetches < total + 1 + MaxLateFetches
    /\ \E r \in {iterate_nocache(cw)} :
      \E err \in IF r.err = "StopIteration"
                 THEN {"StopIteration", "RuntimeError"} ELSE {r.err} :
          /\ cw' = r.w
          /\ cop' = COp("iterator", 0, 0, FALSE, err,
                        IF r.err = "none" THEN <<r.obj>> ELSE <<>>)
          /\ UNCHANGED <<total, iters>>
          /\ KeepCw

NextCursorAll ==
    \/ NextCursor
    \/ DoIteratorNext

SpecCursorAll == InitCursor /\ [][NextCursorAll]_vars

\* C26: in every reachable state of a wrapper, under any sequence of
\* __iter__/next, fill_cache, indexing, len and iterator(), the row counter
\* equals the number of rows in the row cache, and no caching operation
\* fails on a cache position that does not exist.
C26_CountIsCacheLength ==
    /\ cw.count = Len(cw.row_cache)
    /\ cop.op \in {"next", "len", "fill_cache", "getslice"}
          => cop.err # "IndexError"


\* =========================================================================
\* Context: the state stack and the converter of bound parameters
\* =========================================================================
MaxNesting == 2     \* scopes entered and not left
MaxValues == 2      \* parameters bound in one render
NConverters == 2    \* fields with a db_value of their own

\* The db_value of field k is converter k; 0 is None, no converter.
Converters == 0..NConverters
SCOPE_NORMAL == 1
SCOPE_SOURCE == 2
ScopeRules == {SCOPE_NORMAL, SCOPE_SOURCE}

\* A keyword argument that is not passed, a key a dict does not hold.
Absent == "absent"
Unset == -1

\* State.__new__(scope, parentheses, subquery, **kwargs): the settings are
\* the dict of the keyword arguments; parentheses is None, True or False.
State(scope, parentheses, subquery, settings) ==
    [scope |-> scope, parentheses |-> parentheses, subquery |-> subquery,
     settings |-> settings]

\* The settings dict with no key.
NoSettings == [converter |-> Unset]

\* The keyword arguments of a call besides scope, parentheses and subquery.
Kwargs(o) == [converter |-> o.converter]

\* dict.update(kwargs)
Update(settings, kwargs) ==
    [k \in DOMAIN settings |->
        IF kwargs[k] # Unset THEN kwargs[k] ELSE settings[k]]

\* State.__getattr__('converter'): self.settings.get('converter')
Converter(state) ==
    IF state.settings.converter # Unset THEN state.settings.converter ELSE 0

\* State.__call__(scope, parentheses, subquery, **kwargs): the state it
\* returns, and the state it was called on, whose settings dict it updates
\* in place before copying it into the new state.
State_call(self, o) ==
    LET settings == IF Kwargs(o) # NoSettings
                    THEN Update(self.settings, Kwargs(o))
                    ELSE self.settings
    IN  [self |-> [self EXCEPT !.settings = settings],
         new |-> State(IF o.scope = Unset THEN self.scope ELSE o.scope,
                       IF o.parentheses = Absent THEN "None"
                       ELSE o.parentheses,
                       IF o.subquery = Absent THEN self.subquery
                       ELSE o.subquery,
                       settings)]

\* Context.__call__(**overrides): the current state is pushed on the stack
\* and replaced by the one it makes.
Context_call(c, o) ==
    Only({[c EXCEPT !.stack = Append(@, r.self), !.state = r.new] :
          r \in {State_call(c.state,
                            IF o.scope = c.state.scope
                            THEN [o EXCEPT !.scope = Unset] ELSE o)}})

\* Context.__exit__: self.state = self.stack.pop()
Context_exit(c) ==
    [c EXCEPT !.state = c.stack[Len(c.stack)],
              !.stack = SubSeq(@, 1, Len(@) - 1)]

\* converter(value): what the database receives is the value as converted
\* by that converter, not the value.
Convert(converter, v) == [by |-> converter, of |-> v]

\* Context.value(value, converter=None)
Context_value(c, v, converter) ==
    LET used == IF converter = 0 THEN Converter(c.state) ELSE converter
    IN  [c EXCEPT !.values = Append(@, IF used # 0 THEN Convert(used, v)
                                        ELSE Convert(0, v))]

\* The field on the left of the nearest enclosing expression that has a
\* field on its left; 0 when no enclosing expression has one.
RECURSIVE NearestField(_)
NearestField(s) ==
    IF s = <<>> THEN 0
    ELSE IF s[Len(s)].node = "expression" /\ s[Len(s)].lhs # 0
    THEN s[Len(s)].lhs
    ELSE NearestField(SubSeq(s, 1, Len(s) - 1))

XOp(op, o, v) ==
    [op |-> op, overrides |-> o, value |-> v, state0 |-> ctx.state,
     depth0 |-> Len(ctx.stack), want |-> NearestField(scopes)]

NoOverrides == [scope |-> Unset, parentheses |-> Absent,
                subquery |-> Absent, converter |-> Unset]

\* with ctx(**overrides): entered by a node that is not an Expression, as
\* Select.__sql__ does with scope_normal(converter=None, parentheses=...,
\* subquery=True).
DoScope ==
    /\ Len(ctx.stack) < MaxNesting
    /\ \E scope \in ScopeRules \cup {Unset},
          parentheses \in {Absent, "True", "False"},
          subquery \in {Absent, "True"},
          converter \in {Unset, 0} :
       \E o \in {[scope |-> scope, parentheses |-> parentheses,
                  subquery |-> subquery, converter |-> converter]} :
          /\ ctx' = Context_call(ctx, o)
          /\ scopes' = Append(scopes, [node |-> "scope", lhs |-> 0,
                                       before |-> ctx.state])
          /\ xop' = XOp("scope", o, 0)
    /\ KeepCtx

\* Expression.__sql__ enters `with ctx(**overrides):` with parentheses =
\* not flat and converter = lhs.db_value when lhs is a Field, None
\* otherwise.
DoExpression ==
    /\ Len(ctx.stack) < MaxNesting
    /\ \E lhs \in Converters, flat \in BOOLEAN :
       \E o \in {[scope |-> Unset,
                  parentheses |-> IF flat THEN "False" ELSE "True",
                  subquery |-> Absent, converter |-> lhs]} :
          /\ ctx' = Context_call(ctx, o)
          /\ scopes' = Append(scopes, [node |-> "expression", lhs |-> lhs,
                                       before |-> ctx.state])
          /\ xop' = XOp("expression", o, 0)
    /\ KeepCtx

\* Value.__sql__ of a plain Python value: ctx.value(value, None)
DoValue ==
    /\ Len(ctx.values) < MaxValues
    /\ \E v \in 1..2 :
          /\ ctx' = Context_value(ctx, v, 0)
          /\ xop' = XOp("value", NoOverrides, v)
    /\ UNCHANGED scopes
    /\ KeepCtx

\* The with block of the innermost node ends: Context.__exit__
DoLeave ==
    /\ scopes # <<>>
    /\ ctx' = Context_exit(ctx)
    /\ scopes' = SubSeq(scopes, 1, Len(scopes) - 1)
    /\ xop' = [XOp("exit", NoOverrides, 0) EXCEPT
                  !.state0 = scopes[Len(scopes)].before]
    /\ KeepCtx

\* Context.__init__(**settings) as Database.get_sql_context makes it.
InitContext ==
    /\ JustCtx
    /\ ctx = [state |-> State(SCOPE_NORMAL, "False", "False", NoSettings),
              stack |-> <<>>, values |-> <<>>]
    /\ scopes = <<>>
    /\ xop = [op |-> "init", overrides |-> NoOverrides, value |-> 0,
              state0 |-> ctx.state, depth0 |-> 0, want |-> 0]

NextContext ==
    \/ DoScope
    \/ DoExpression
    \/ DoValue
    \/ DoLeave

SpecContext == InitContext /\ [][NextContext]_vars

\* C21: every parameter bound inside the subtree of an expression whose
\* left side is a Field, nested expressions without a Field on their left
\* included, is converted with the db_value of the nearest enclosing such
\* field; a parameter bound outside every such expression is bound
\* unconverted.
C21_ConverterLocality ==
    xop.op = "value" =>
        ctx.values[Len(ctx.values)] = Convert(xop.want, xop.value)

\* C25: after a scope entered with overrides exits, the current state of
\* the Context, every setting included, equals the state before the scope
\* was entered and the stack has its earlier depth; a child scope does not
\* inherit parentheses.
C25_ScopesIsolated ==
    /\ xop.op = "exit" =>
          /\ ctx.state.scope = xop.state0.scope
          /\ ctx.state.parentheses = xop.state0.parentheses
          /\ ctx.state.subquery = xop.state0.subquery
          /\ Converter(ctx.state) = Converter(xop.state0)
          /\ Len(ctx.stack) = xop.depth0 - 1
    /\ xop.op \in {"scope", "expression"} =>
          /\ Len(ctx.stack) = xop.depth0 + 1
          /\ ctx.state.parentheses =
                IF xop.overrides.parentheses = Absent THEN "None"
                ELSE xop.overrides.parentheses


\* =========================================================================
\* Builder calls that are refused
\* =========================================================================
MaxWheres == 2      \* where() calls on one query
MaxKeyLen == 3      \* length of a sequence assigned to the composite key
NKeyFields == 2     \* fields of the composite key
MaxKeyVal == 2      \* values of a key field

\* What for_update() can be given: True, False or the expression to use.
ForUpdateArgs == {"True", "False", "FOR UPDATE NOWAIT"}

\* bool(self._for_update)
Truthy(x) == x \notin {"None", "False"}

\* The lists and tuples a program can assign to the key.
KeyValues == UNION {[1..n -> 1..MaxKeyVal] : n \in 0..MaxKeyLen}

BOp(op, arg, err, same) == [op |-> op, arg |-> arg, err |-> err, same |-> same]

\* Insert.where(*expressions)
DoInsertWhere ==
    /\ bop' = BOp("insert_where", "none", "NotImplementedError", TRUE)
    /\ UNCHANGED <<for_update, sel, ins, key>>
    /\ KeepBld

\* Query.where(*expressions) on the Select: a clone with the expressions
\* added.
DoSelectWhere ==
    /\ sel.wheres < MaxWheres
    /\ sel' = [sel EXCEPT !.wheres = @ + 1]
    /\ bop' = BOp("where", "none", "none", FALSE)
    /\ UNCHANGED <<for_update, ins, key>>
    /\ KeepBld

\* Select.for_update(for_update=True): a clone with _for_update set.
Select_for_update(q, arg) ==
    [q EXCEPT !.for_update = IF arg = "True" THEN "FOR UPDATE" ELSE arg]

DoForUpdate ==
    \E arg \in ForUpdateArgs :
        /\ sel' = Select_for_update(sel, arg)
        /\ bop' = BOp("for_update", arg, "none", sel' = sel)
        /\ UNCHANGED <<for_update, ins, key>>
        /\ KeepBld

\* Select.__sql__: the FOR UPDATE part
DoRenderSelect ==
    /\ bop' = BOp("render", sel.for_update,
                  IF Truthy(sel.for_update) /\ ~for_update
                  THEN "ValueError" ELSE "none", TRUE)
    /\ UNCHANGED <<for_update, sel, ins, key>>
    /\ KeepBld

\* CompositeKey.__set__(instance, value) with a list or tuple
CompositeKey_set(k, value) ==
    IF Len(value) # NKeyFields THEN [key |-> k, err |-> "ValueError"]
    ELSE [key |-> value, err |-> "none"]

DoSetKey ==
    \E value \in KeyValues :
    \E r \in {CompositeKey_set(key, value)} :
        /\ key' = r.key
        /\ bop' = BOp("set_key", IF Len(value) = NKeyFields THEN "fits"
                                 ELSE "wrong length", r.err, key' = key)
        /\ UNCHANGED <<for_update, sel, ins>>
        /\ KeepBld

\* CompositeKey.__set__(instance, value) with a value that is no list or
\* tuple
DoSetKeyScalar ==
    /\ bop' = BOp("set_key", "no sequence", "TypeError", TRUE)
    /\ UNCHANGED <<for_update, sel, ins, key>>
    /\ KeepBld

\* A Select and an Insert as Model.select() and Model.insert() make them,
\* an instance with its key set, a database of a dialect with or without
\* FOR UPDATE.
InitBuilder ==
    /\ JustBld
    /\ for_update \in BOOLEAN
    /\ sel = [for_update |-> "None", wheres |-> 0]
    /\ ins = [wheres |-> 0]
    /\ key \in [1..NKeyFields -> 1..MaxKeyVal]
    /\ bop = BOp("init", "none", "none", TRUE)

NextBuilder ==
    \/ DoInsertWhere
    \/ DoSelectWhere
    \/ DoForUpdate
    \/ DoRenderSelect
    \/ DoSetKey
    \/ DoSetKeyScalar

SpecBuilder == InitBuilder /\ [][NextBuilder]_vars

\* C22: misuse of a builder raises at the builder call and not at render
\* time: where() on an INSERT raises; for_update() on a Select of a
\* database without FOR UPDATE raises; assigning a value of the wrong
\* length, or no sequence, to a composite key raises; after the error the
\* query or instance is as it was; rendering does not raise for such a
\* misuse.
C22_MisuseRaisesAtCall ==
    /\ bop.op = "insert_where" => bop.err # "none" /\ bop.same
    /\ (bop.op = "for_update" /\ ~for_update /\ Truthy(sel.for_update))
          => bop.err # "none"
    /\ (bop.op = "set_key" /\ bop.arg # "fits") => bop.err # "none" /\ bop.same
    /\ bop.op = "render" => bop.err = "none"


\* =========================================================================
\* sort_models, Database.create_tables and drop_tables
\* =========================================================================
NSortModels == 3    \* model classes 1..NSortModels, named in that order
MaxSortRefs == 2    \* foreign keys and depends_on entries declared

SortModels == 1..NSortModels

\* Declaration number i of the possible ones: `model` has a foreign key to
\* `rel_model` (an entry of _meta.refs) or names it in _meta.depends_on.
Declared(i) ==
    [model |-> ((i - 1) \div (2 * NSortModels)) + 1,
     rel_model |-> (((i - 1) \div 2) % NSortModels) + 1,
     depends_on |-> (i - 1) % 2 = 1]

\* The declarations of at most k entries numbered lo or more.
RECURSIVE Declarations(_, _)
Declarations(lo, k) ==
    IF k = 0 THEN {<<>>}
    ELSE {<<>>} \cup UNION {{<<Declared(i)>> \o s :
                               s \in Declarations(i + 1, k - 1)} :
                            i \in lo..(2 * NSortModels * NSortModels)}

\* The rel_model of the entries of e that `model` declares with the given
\* kind, in declaration order.
RECURSIVE Targets(_, _, _)
Targets(e, model, depends_on) ==
    IF e = <<>> THEN <<>>
    ELSE (IF Head(e).model = model /\ Head(e).depends_on = depends_on
          THEN <<Head(e).rel_model>> ELSE <<>>)
         \o Targets(Tail(e), model, depends_on)

\* What dfs(model) visits: model._meta.refs.values(), then
\* model._meta.depends_on.
Visits(model) == Targets(edges, model, FALSE) \o Targets(edges, model, TRUE)

RECURSIVE dfs(_, _), dfs_each(_, _)

\* The for loops of dfs and of sort_models: dfs on each model of a list.
dfs_each(st, ms) ==
    IF ms = <<>> THEN st
    ELSE dfs_each(dfs(st, Head(ms)), Tail(ms))

\* dfs that appends the model before the models it depends on
dfs_preorder(st, model) ==
    IF model \in models /\ model \notin st.seen
    THEN dfs_each([st EXCEPT !.seen = @ \cup {model},
                             !.ordering = Append(@, model)], Visits(model))
    ELSE st

\* dfs(model) inside sort_models; st is seen and ordering.
dfs(st, model) ==
    IF model \in models /\ model \notin st.seen
    THEN [dfs_each([st EXCEPT !.seen = @ \cup {model}], Visits(model))
             EXCEPT !.ordering = Append(@, model)]
    ELSE st

\* sorted(models, key=names): the models of S in the order of their names.
RECURSIVE Sorted(_)
Sorted(S) ==
    IF S = {} THEN <<>>
    ELSE <<Least(S)>> \o Sorted(S \ {Least(S)})

\* sort_models(models)
sort_models ==
    dfs_each([seen |-> {}, ordering |-> <<>>], Sorted(models)).ordering

\* sort_models(models) called by the program
DoSortModels ==
    /\ ordering' = sort_models
    /\ sop' = "sort_models"
    /\ UNCHANGED <<models, edges, tables, dropped>>
    /\ KeepSrt

\* db.create_tables(models): model.create_table() for each model of
\* sort_models(models).
DoCreateTables ==
    /\ tables = <<>>
    /\ ordering' = sort_models
    /\ tables' = ordering'
    /\ sop' = "create_tables"
    /\ UNCHANGED <<models, edges, dropped>>
    /\ KeepSrt

\* db.drop_tables(models): model.drop_table() for each model of
\* reversed(sort_models(models)).
DoDropTables ==
    /\ tables # <<>>
    /\ dropped = <<>>
    /\ ordering' = sort_models
    /\ dropped' = Reversed(ordering')
    /\ sop' = "drop_tables"
    /\ UNCHANGED <<models, edges, tables>>
    /\ KeepSrt

\* Model classes as declared, and the models the program hands over.
InitSort ==
    /\ JustSrt
    /\ models \in SUBSET SortModels
    /\ edges \in Declarations(1, MaxSortRefs)
    /\ ordering = <<>>
    /\ tables = <<>>
    /\ dropped = <<>>
    /\ sop = "init"

NextSort ==
    \/ DoSortModels
    \/ DoCreateTables
    \/ DoDropTables

SpecSort == InitSort /\ [][NextSort]_vars

\* m references r inside the set handed over, by foreign key or depends_on.
References(m, r) ==
    /\ m \in models
    /\ r \in models
    /\ \E i \in DOMAIN edges : edges[i].model = m /\ edges[i].rel_model = r

\* The models reached from m through one reference or more.
RECURSIVE ReachedIn(_, _)
ReachedIn(m, n) ==
    IF n = 0 THEN {}
    ELSE {r \in SortModels : References(m, r)}
         \cup UNION {ReachedIn(r, n - 1) : r \in {x \in SortModels :
                                                   References(m, x)}}

SortAcyclic == \A m \in models : m \notin ReachedIn(m, NSortModels)

PositionIn(s, m) == CHOOSE i \in DOMAIN s : s[i] = m

\* C23: sort_models(S) returns each model of S exactly once, cycles and
\* self-references or not; when the references inside S are acyclic, every
\* model comes after each model of S it references by foreign key or
\* depends_on; create_tables creates the tables in that order and
\* drop_tables drops them in the reverse order.
C23_SortModels ==
    sop # "init" =>
        /\ Len(ordering) = Cardinality(models)
        /\ {ordering[i] : i \in DOMAIN ordering} = models
        /\ SortAcyclic =>
              \A m \in models, r \in models :
                  References(m, r) =>
                      PositionIn(ordering, r) < PositionIn(ordering, m)
        /\ sop = "create_tables" => tables = ordering
        /\ sop = "drop_tables" =>
              /\ Len(dropped) = Len(tables)
              /\ \A i \in DOMAIN dropped :
                    dropped[i] = tables[Len(tables) + 1 - i]

\* A chain 1 -> 2 -> 3 was handed over whole: the tables were created in
\* the order 3, 2, 1 and dropped in the order 1, 2, 3.
C23_Witness ==
    /\ sop = "drop_tables"
    /\ models = SortModels
    /\ SortAcyclic
    /\ References(1, 2)
    /\ References(2, 3)
    /\ tables = <<3, 2, 1>>
    /\ dropped = <<1, 2, 3>>


\* =========================================================================
\* _SortedFieldList
\* =========================================================================
MaxSorted == 3      \* Field objects
MaxOrder == 2       \* values of Field._order

SortedFields == 1..MaxSorted
\* (primary_key and 1 or 2, _order): a Field made by the constructor gets a
\* new _order; a copy made by clone() or copy() carries the _order and the
\* _sort_key of the field it was copied from.
SortKeys == (1..2) \X (1..MaxOrder)

\* Comparison of tuples in Python
TupleLess(a, b) == a[1] < b[1] \/ (a[1] = b[1] /\ a[2] < b[2])

\* bisect.bisect_left(a, x): the loop over lo and hi
RECURSIVE bisect_left_loop(_, _, _, _)
bisect_left_loop(a, x, lo, hi) ==
    IF lo < hi
    THEN LET mid == (lo + hi) \div 2
         IN  IF TupleLess(a[mid + 1], x)
             THEN bisect_left_loop(a, x, mid + 1, hi)
             ELSE bisect_left_loop(a, x, lo, mid)
    ELSE lo

bisect_left(a, x) == bisect_left_loop(a, x, 0, Len(a))

\* list.insert(i, x) for 0 <= i <= len
ListInsert(s, i, x) == SubSeq(s, 1, i) \o <<x>> \o SubSeq(s, i + 1, Len(s))

\* del list[i]
ListDel(s, i) == SubSeq(s, 1, i) \o SubSeq(s, i + 2, Len(s))

\* list.index(x): the first position that holds x; the list holds x
ListIndex(s, x) ==
    (CHOOSE i \in DOMAIN s : s[i] = x /\ \A j \in 1..(i - 1) : s[j] # x) - 1

\* _SortedFieldList.insert(item)
SortedFieldList_insert(l, item) ==
    Only({[keys |-> ListInsert(l.keys, i, sort_key[item]),
           items |-> ListInsert(l.items, i, item)] :
          i \in {bisect_left(l.keys, sort_key[item])}})

\* _SortedFieldList.index(field)
SortedFieldList_index(l, field) == ListIndex(l.keys, sort_key[field])

\* _SortedFieldList.remove(item)
SortedFieldList_remove(l, item) ==
    Only({[keys |-> ListDel(l.keys, idx), items |-> ListDel(l.items, idx)] :
          idx \in {SortedFieldList_index(l, item)}})

InList(s) == {s[i] : i \in DOMAIN s}

\* Metadata.add_field inserts a field the list does not hold.
DoInsertField ==
    \E item \in SortedFields \ InList(inserted) :
        /\ sfl' = SortedFieldList_insert(sfl, item)
        /\ inserted' = Append(inserted, item)
        /\ fop' = [op |-> "insert", item |-> item]
        /\ UNCHANGED sort_key
        /\ KeepSfl

\* Metadata.remove_field removes a field the model holds.
DoRemoveSortedField ==
    \E item \in InList(inserted) :
        /\ sfl' = SortedFieldList_remove(sfl, item)
        /\ inserted' = SelectSeq(inserted, LAMBDA f : f # item)
        /\ fop' = [op |-> "remove", item |-> item]
        /\ UNCHANGED sort_key
        /\ KeepSfl

\* _SortedFieldList.__init__, and the Field objects of the program.
InitSorted ==
    /\ JustSfl
    /\ sort_key \in [SortedFields -> SortKeys]
    /\ sfl = [keys |-> <<>>, items |-> <<>>]
    /\ inserted = <<>>
    /\ fop = [op |-> "init", item |-> 0]

NextSorted ==
    \/ DoInsertField
    \/ DoRemoveSortedField

SpecSorted == InitSorted /\ [][NextSorted]_vars

\* C24: after any sequence of insert and remove the list holds exactly the
\* fields inserted and not yet removed, in nondecreasing _sort_key order,
\* with the key list equal to the keys of the items position by position;
\* fields with equal keys keep their insertion order, and remove(f) removes
\* f itself.
C24_SortedFieldList ==
    /\ Len(sfl.items) = Len(inserted)
    /\ InList(sfl.items) = InList(inserted)
    /\ Len(sfl.keys) = Len(sfl.items)
    /\ \A i \in DOMAIN sfl.items : sfl.keys[i] = sort_key[sfl.items[i]]
    /\ \A i \in DOMAIN sfl.keys, j \in DOMAIN sfl.keys :
          i < j => ~TupleLess(sfl.keys[j], sfl.keys[i])
    /\ \A i \in DOMAIN sfl.items, j \in DOMAIN sfl.items :
          (i < j /\ sfl.keys[i] = sfl.keys[j]) =>
              PositionIn(inserted, sfl.items[i])
                  < PositionIn(inserted, sfl.items[j])
    /\ fop.op = "remove" => fop.item \notin InList(sfl.items)


\* =========================================================================
\* Database.bind, Model.bind_ctx and _BoundModelsContext
\* =========================================================================
NBindModels == 3    \* model classes
NDatabases == 2     \* Database objects
MaxBindRefs == 2    \* foreign keys among the models
MaxBound == 2       \* models listed in one bind() call

BindModels == 1..NBindModels
Databases == 1..NDatabases

\* The sets of at most k of the pairs numbered lo or more.
RECURSIVE ForeignKeySets(_, _)
ForeignKeySets(lo, k) ==
    IF k = 0 THEN {{}}
    ELSE {{}} \cup UNION {{{<<((i - 1) \div NBindModels) + 1,
                             ((i - 1) % NBindModels) + 1>>} \cup s :
                            s \in ForeignKeySets(i + 1, k - 1)} :
                          i \in lo..(NBindModels * NBindModels)}

\* The lists of at most k distinct models.
RECURSIVE ModelLists(_)
ModelLists(k) ==
    IF k = 0 THEN {<<>>}
    ELSE {<<>>} \cup {Append(l, m) : l \in ModelLists(k - 1),
                                    m \in BindModels}

\* One round of the loop of model_graph: the models the models of S lead
\* to, through refs (the models they reference) and through backrefs (the
\* models that reference them).
Neighbours(S, with_refs, with_backrefs) ==
    {m \in BindModels :
        \E c \in S : \/ with_refs /\ <<c, m>> \in fkeys
                     \/ with_backrefs /\ <<m, c>> \in fkeys}

\* Metadata.model_graph(refs, backrefs): the models of its entries.
RECURSIVE model_graph_from(_, _, _, _)
model_graph_from(S, with_refs, with_backrefs, n) ==
    IF n = 0 THEN S
    ELSE model_graph_from(S \cup Neighbours(S, with_refs, with_backrefs),
                          with_refs, with_backrefs, n - 1)

model_graph(model, with_refs, with_backrefs) ==
    model_graph_from({model}, with_refs, with_backrefs, NBindModels)

\* Model.bind(database, bind_refs, bind_backrefs) on cls, given the
\* bindings d of all models
Model_bind(d, cls, db, bind_refs, bind_backrefs) ==
    LET G == IF bind_refs \/ bind_backrefs
             THEN model_graph(cls, bind_refs, bind_backrefs) ELSE {cls}
    IN  [m \in BindModels |-> IF m \in G THEN db ELSE d[m]]

\* _BoundModelsContext.__enter__: for each model of the list, its database
\* is appended to _orig_database and the model is bound. r is the bindings
\* and _orig_database so far.
RECURSIVE BoundModelsContext_enter(_, _, _)
BoundModelsContext_enter(r, c, i) ==
    IF i > Len(c.models) THEN r
    ELSE BoundModelsContext_enter(
             [orig |-> Append(r.orig, r.d[c.models[i]]),
              d |-> Model_bind(r.d, c.models[i], c.database, c.bind_refs,
                               c.bind_backrefs)], c, i + 1)

\* _BoundModelsContext.__exit__: each model of the list is bound to the
\* database recorded for it.
RECURSIVE BoundModelsContext_exit(_, _, _)
BoundModelsContext_exit(d, c, i) ==
    IF i > Len(c.models) THEN d
    ELSE BoundModelsContext_exit(
             Model_bind(d, c.models[i], c.orig[i], c.bind_refs,
                        c.bind_backrefs), c, i + 1)

NoContext == [models |-> <<>>, database |-> 0, bind_refs |-> FALSE,
              bind_backrefs |-> FALSE, orig |-> <<>>, before |-> <<>>,
              inside |-> <<>>]

\* with db.bind(models, bind_refs, bind_backrefs): and
\* with Model.bind_ctx(db, bind_refs, bind_backrefs): entered
DoBindEnter ==
    /\ bctx = NoContext
    /\ \E ms \in ModelLists(MaxBound) \ {<<>>}, db \in Databases,
          bind_refs \in BOOLEAN, bind_backrefs \in BOOLEAN :
       \E c \in {[NoContext EXCEPT !.models = ms, !.database = db,
                                   !.bind_refs = bind_refs,
                                   !.bind_backrefs = bind_backrefs]} :
       \E r \in {BoundModelsContext_enter([orig |-> <<>>, d |-> database],
                                          c, 1)} :
          /\ \A i \in DOMAIN ms, j \in DOMAIN ms : i # j => ms[i] # ms[j]
          /\ database' = r.d
          /\ bctx' = [c EXCEPT !.orig = r.orig, !.before = database,
                               !.inside = r.d]
          /\ nop' = "enter"
    /\ UNCHANGED fkeys
    /\ KeepBnd

\* The with block ends, normally or with an exception.
DoBindExit ==
    /\ bctx # NoContext
    /\ nop = "enter"
    /\ database' = BoundModelsContext_exit(database, bctx, 1)
    /\ nop' = "exit"
    /\ UNCHANGED <<fkeys, bctx>>
    /\ KeepBnd

\* The context object is dropped; the program goes on.
DoBindDone ==
    /\ nop = "exit"
    /\ bctx' = NoContext
    /\ nop' = "done"
    /\ UNCHANGED <<fkeys, database>>
    /\ KeepBnd

\* Model classes as declared, each bound to a database.
InitBind ==
    /\ JustBnd
    /\ database \in [BindModels -> Databases]
    /\ fkeys \in ForeignKeySets(1, MaxBindRefs)
    /\ bctx = NoContext
    /\ nop = "init"

NextBind ==
    \/ DoBindEnter
    \/ DoBindExit
    \/ DoBindDone

SpecBind == InitBind /\ [][NextBind]_vars

\* C30: after a binding context exits, every model whose database was
\* changed on entry, listed or reached through refs/backrefs, is bound to
\* the database it had before entry, also when related models were bound
\* to different databases before entry.
C30_BindingRestored ==
    nop = "exit" =>
        \A m \in BindModels :
            bctx.inside[m] # bctx.before[m] => database[m] = bctx.before[m]

=============================================================================
